---- MODULE Spec2Model ----
(***************************************************************************)
(* etcdap: an LDAP gateway for etcd.  This module models the Bind and      *)
(* Search handlers of the gateway (main.go), the etcd backend behind them  *)
(* (backend.go, user.go) and the etcd tree they read.                      *)
(*                                                                         *)
(* Strings that the code parses (DNs, etcd keys) are sequences of          *)
(* one-character strings, so that strings.Split, strings.HasPrefix and     *)
(* strings.Join are computed as Go computes them.  Opaque strings          *)
(* (passwords, digests, names, mail addresses, attribute names) are plain  *)
(* TLA+ strings.                                                           *)
(***************************************************************************)
EXTENDS Integers, Sequences, FiniteSets, TLC

\* Requests served on one connection before the model stops issuing more.
MaxRequests == 2

\* Longest attribute list of a search request.
MaxAttrs == 2

(***************************************************************************)
(* Go's strings package, on sequences of characters.                       *)
(***************************************************************************)

\* F(v) with v evaluated once, as a Go local variable is: x := v; F(x)
Let(v, F(_)) ==
  CHOOSE r \in {F(x) : x \in {v}} : TRUE

\* strings.HasPrefix(s, p)
HasPrefix(s, p) ==
  /\ Len(s) >= Len(p)
  /\ SubSeq(s, 1, Len(p)) = p

\* strings.Contains(s, c) for a one-character c
Contains(s, c) ==
  \E i \in 1..Len(s) : s[i] = c

\* strings.Split(s, c) for a one-character separator c: the pieces between
\* the separators; a string without separator (the empty one too) is one piece.
RECURSIVE Split(_, _)
Split(s, c) ==
  IF ~Contains(s, c)
  THEN <<s>>
  ELSE Let(CHOOSE j \in 1..Len(s) :
             /\ s[j] = c
             /\ \A k \in 1..(j - 1) : s[k] # c,
           LAMBDA i :
             Let(SubSeq(s, i + 1, Len(s)),
                 LAMBDA rest : <<SubSeq(s, 1, i - 1)>> \o Split(rest, c)))

\* strings.Join(list, c) for a one-character separator c
RECURSIVE Join(_, _)
Join(list, c) ==
  IF Len(list) = 0 THEN <<>>
  ELSE IF Len(list) = 1 THEN list[1]
  ELSE Let(Tail(list), LAMBDA rest : list[1] \o <<c>> \o Join(rest, c))

(***************************************************************************)
(* The strings of the model: DNs a client sends, keys of the etcd tree.    *)
(***************************************************************************)

\* "cn=manager"
dn_manager ==
  <<"c", "n", "=", "m", "a", "n", "a", "g", "e", "r">>
\* "cn=mark,ou=People,dc=example,dc=com"
dn_mark ==
  <<"c", "n", "=", "m", "a", "r", "k", ",", "o", "u", "=", "P", "e", "o", "p", "l", "e", ",", "d", "c", "=", "e", "x", "a", "m", "p", "l", "e", ",", "d", "c", "=", "c", "o", "m">>
\* "cn=alice,ou=People,dc=example,dc=com"
dn_alice ==
  <<"c", "n", "=", "a", "l", "i", "c", "e", ",", "o", "u", "=", "P", "e", "o", "p", "l", "e", ",", "d", "c", "=", "e", "x", "a", "m", "p", "l", "e", ",", "d", "c", "=", "c", "o", "m">>
\* "cn=ghost,ou=People,dc=example,dc=com"
dn_ghost ==
  <<"c", "n", "=", "g", "h", "o", "s", "t", ",", "o", "u", "=", "P", "e", "o", "p", "l", "e", ",", "d", "c", "=", "e", "x", "a", "m", "p", "l", "e", ",", "d", "c", "=", "c", "o", "m">>
\* "cn=msato,ou=Staff,dc=example,dc=com"
dn_msato ==
  <<"c", "n", "=", "m", "s", "a", "t", "o", ",", "o", "u", "=", "S", "t", "a", "f", "f", ",", "d", "c", "=", "e", "x", "a", "m", "p", "l", "e", ",", "d", "c", "=", "c", "o", "m">>
\* "cn=bad,ou=Broken,dc=example,dc=com"
dn_bad ==
  <<"c", "n", "=", "b", "a", "d", ",", "o", "u", "=", "B", "r", "o", "k", "e", "n", ",", "d", "c", "=", "e", "x", "a", "m", "p", "l", "e", ",", "d", "c", "=", "c", "o", "m">>
\* "cn=nobody,ou=Void,dc=example,dc=com"
dn_nobody ==
  <<"c", "n", "=", "n", "o", "b", "o", "d", "y", ",", "o", "u", "=", "V", "o", "i", "d", ",", "d", "c", "=", "e", "x", "a", "m", "p", "l", "e", ",", "d", "c", "=", "c", "o", "m">>
\* "uid=mark,dc=example,dc=com"
dn_uid ==
  <<"u", "i", "d", "=", "m", "a", "r", "k", ",", "d", "c", "=", "e", "x", "a", "m", "p", "l", "e", ",", "d", "c", "=", "c", "o", "m">>
\* "cn=mark,ou=People,o=example"
dn_o_mark ==
  <<"c", "n", "=", "m", "a", "r", "k", ",", "o", "u", "=", "P", "e", "o", "p", "l", "e", ",", "o", "=", "e", "x", "a", "m", "p", "l", "e">>
\* "ou=People,dc=example,dc=com"
dn_people ==
  <<"o", "u", "=", "P", "e", "o", "p", "l", "e", ",", "d", "c", "=", "e", "x", "a", "m", "p", "l", "e", ",", "d", "c", "=", "c", "o", "m">>
\* "ou=Staff,dc=example,dc=com"
dn_staff ==
  <<"o", "u", "=", "S", "t", "a", "f", "f", ",", "d", "c", "=", "e", "x", "a", "m", "p", "l", "e", ",", "d", "c", "=", "c", "o", "m">>
\* "ou=Broken,dc=example,dc=com"
dn_broken ==
  <<"o", "u", "=", "B", "r", "o", "k", "e", "n", ",", "d", "c", "=", "e", "x", "a", "m", "p", "l", "e", ",", "d", "c", "=", "c", "o", "m">>
\* "ou=Void,dc=example,dc=com"
dn_void ==
  <<"o", "u", "=", "V", "o", "i", "d", ",", "d", "c", "=", "e", "x", "a", "m", "p", "l", "e", ",", "d", "c", "=", "c", "o", "m">>
\* "ou=Nowhere,dc=example,dc=com"
dn_nowhere ==
  <<"o", "u", "=", "N", "o", "w", "h", "e", "r", "e", ",", "d", "c", "=", "e", "x", "a", "m", "p", "l", "e", ",", "d", "c", "=", "c", "o", "m">>
\* "dc=example,dc=com"
dn_domain ==
  <<"d", "c", "=", "e", "x", "a", "m", "p", "l", "e", ",", "d", "c", "=", "c", "o", "m">>
\* "/etcdap"
key_root ==
  <<"/", "e", "t", "c", "d", "a", "p">>
\* "/etcdap/manager"
key_manager ==
  <<"/", "e", "t", "c", "d", "a", "p", "/", "m", "a", "n", "a", "g", "e", "r">>
\* "/etcdap/example.com"
key_domain ==
  <<"/", "e", "t", "c", "d", "a", "p", "/", "e", "x", "a", "m", "p", "l", "e", ".", "c", "o", "m">>
\* "/etcdap/example.com/People"
key_people ==
  <<"/", "e", "t", "c", "d", "a", "p", "/", "e", "x", "a", "m", "p", "l", "e", ".", "c", "o", "m", "/", "P", "e", "o", "p", "l", "e">>
\* "/etcdap/example.com/People/mark"
key_mark ==
  <<"/", "e", "t", "c", "d", "a", "p", "/", "e", "x", "a", "m", "p", "l", "e", ".", "c", "o", "m", "/", "P", "e", "o", "p", "l", "e", "/", "m", "a", "r", "k">>
\* "/etcdap/example.com/People/alice"
key_alice ==
  <<"/", "e", "t", "c", "d", "a", "p", "/", "e", "x", "a", "m", "p", "l", "e", ".", "c", "o", "m", "/", "P", "e", "o", "p", "l", "e", "/", "a", "l", "i", "c", "e">>
\* "/etcdap/example.com/Staff"
key_staff ==
  <<"/", "e", "t", "c", "d", "a", "p", "/", "e", "x", "a", "m", "p", "l", "e", ".", "c", "o", "m", "/", "S", "t", "a", "f", "f">>
\* "/etcdap/example.com/Staff/mark"
key_staff_mark ==
  <<"/", "e", "t", "c", "d", "a", "p", "/", "e", "x", "a", "m", "p", "l", "e", ".", "c", "o", "m", "/", "S", "t", "a", "f", "f", "/", "m", "a", "r", "k">>
\* "/etcdap/example.com/Staff/msato"
key_staff_msato ==
  <<"/", "e", "t", "c", "d", "a", "p", "/", "e", "x", "a", "m", "p", "l", "e", ".", "c", "o", "m", "/", "S", "t", "a", "f", "f", "/", "m", "s", "a", "t", "o">>
\* "/etcdap/example.com/Broken"
key_broken ==
  <<"/", "e", "t", "c", "d", "a", "p", "/", "e", "x", "a", "m", "p", "l", "e", ".", "c", "o", "m", "/", "B", "r", "o", "k", "e", "n">>
\* "/etcdap/example.com/Broken/bad"
key_bad ==
  <<"/", "e", "t", "c", "d", "a", "p", "/", "e", "x", "a", "m", "p", "l", "e", ".", "c", "o", "m", "/", "B", "r", "o", "k", "e", "n", "/", "b", "a", "d">>
\* "/etcdap/example.com/Void"
key_void ==
  <<"/", "e", "t", "c", "d", "a", "p", "/", "e", "x", "a", "m", "p", "l", "e", ".", "c", "o", "m", "/", "V", "o", "i", "d">>
\* "/etcdap/example.com/Void/nobody"
key_nobody ==
  <<"/", "e", "t", "c", "d", "a", "p", "/", "e", "x", "a", "m", "p", "l", "e", ".", "c", "o", "m", "/", "V", "o", "i", "d", "/", "n", "o", "b", "o", "d", "y">>
\* "etcdap"
prefix ==
  <<"e", "t", "c", "d", "a", "p">>
\* "mark"
v_mark ==
  <<"m", "a", "r", "k">>
\* "alice"
v_alice ==
  <<"a", "l", "i", "c", "e">>
\* "ghost"
v_ghost ==
  <<"g", "h", "o", "s", "t">>
\* "mark@example.com"
v_mail ==
  <<"m", "a", "r", "k", "@", "e", "x", "a", "m", "p", "l", "e", ".", "c", "o", "m">>

\* "cn=admin"
dn_admin ==
  <<"c", "n", "=", "a", "d", "m", "i", "n">>
\* "cn=mark,dc=example,dc=com"
dn_mark_domain ==
  <<"c", "n", "=", "m", "a", "r", "k", ",", "d", "c", "=", "e", "x", "a", "m", "p", "l", "e", ",", "d", "c", "=", "c", "o", "m">>
\* "cn=mark,ou=Engineer,ou=People,dc=example,dc=com"
dn_mark_engineer ==
  <<"c", "n", "=", "m", "a", "r", "k", ",", "o", "u", "=", "E", "n", "g", "i", "n", "e", "e", "r", ",", "o", "u", "=", "P", "e", "o", "p", "l", "e", ",", "d", "c", "=", "e", "x", "a", "m", "p", "l", "e", ",", "d", "c", "=", "c", "o", "m">>
\* "cn=mark,o=example"
dn_o_mark_org ==
  <<"c", "n", "=", "m", "a", "r", "k", ",", "o", "=", "e", "x", "a", "m", "p", "l", "e">>
\* "cn=mark,ou=Engineer,ou=People,o=example"
dn_o_mark_engineer ==
  <<"c", "n", "=", "m", "a", "r", "k", ",", "o", "u", "=", "E", "n", "g", "i", "n", "e", "e", "r", ",", "o", "u", "=", "P", "e", "o", "p", "l", "e", ",", "o", "=", "e", "x", "a", "m", "p", "l", "e">>
\* "/admin"
path_admin ==
  <<"/", "a", "d", "m", "i", "n">>
\* "/example.com/mark"
path_mark_domain ==
  <<"/", "e", "x", "a", "m", "p", "l", "e", ".", "c", "o", "m", "/", "m", "a", "r", "k">>
\* "/example.com/People/mark"
path_mark ==
  <<"/", "e", "x", "a", "m", "p", "l", "e", ".", "c", "o", "m", "/", "P", "e", "o", "p", "l", "e", "/", "m", "a", "r", "k">>
\* "/example.com/People/Engineer/mark"
path_mark_engineer ==
  <<"/", "e", "x", "a", "m", "p", "l", "e", ".", "c", "o", "m", "/", "P", "e", "o", "p", "l", "e", "/", "E", "n", "g", "i", "n", "e", "e", "r", "/", "m", "a", "r", "k">>
\* "/examplemark"
path_o_mark_org ==
  <<"/", "e", "x", "a", "m", "p", "l", "e", "m", "a", "r", "k">>
\* "/example/People/mark"
path_o_mark ==
  <<"/", "e", "x", "a", "m", "p", "l", "e", "/", "P", "e", "o", "p", "l", "e", "/", "m", "a", "r", "k">>
\* "/example/People/Engineer/mark"
path_o_mark_engineer ==
  <<"/", "e", "x", "a", "m", "p", "l", "e", "/", "P", "e", "o", "p", "l", "e", "/", "E", "n", "g", "i", "n", "e", "e", "r", "/", "m", "a", "r", "k">>
\* "dc=example,dc=org"
dn_org ==
  <<"d", "c", "=", "e", "x", "a", "m", "p", "l", "e", ",", "d", "c", "=", "o", "r", "g">>
\* "ou=People,dc=example,dc=org"
dn_org_people ==
  <<"o", "u", "=", "P", "e", "o", "p", "l", "e", ",", "d", "c", "=", "e", "x", "a", "m", "p", "l", "e", ",", "d", "c", "=", "o", "r", "g">>
\* "ou=Engineer,ou=People,dc=example,dc=org"
dn_org_engineer ==
  <<"o", "u", "=", "E", "n", "g", "i", "n", "e", "e", "r", ",", "o", "u", "=", "P", "e", "o", "p", "l", "e", ",", "d", "c", "=", "e", "x", "a", "m", "p", "l", "e", ",", "d", "c", "=", "o", "r", "g">>
\* "/etcdap/example.org"
key_org ==
  <<"/", "e", "t", "c", "d", "a", "p", "/", "e", "x", "a", "m", "p", "l", "e", ".", "o", "r", "g">>
\* "/etcdap/example.org/People"
key_org_people ==
  <<"/", "e", "t", "c", "d", "a", "p", "/", "e", "x", "a", "m", "p", "l", "e", ".", "o", "r", "g", "/", "P", "e", "o", "p", "l", "e">>
\* "/etcdap/example.org/People/kate"
key_org_kate ==
  <<"/", "e", "t", "c", "d", "a", "p", "/", "e", "x", "a", "m", "p", "l", "e", ".", "o", "r", "g", "/", "P", "e", "o", "p", "l", "e", "/", "k", "a", "t", "e">>
\* "/etcdap/example.org/People/Engineer"
key_org_engineer ==
  <<"/", "e", "t", "c", "d", "a", "p", "/", "e", "x", "a", "m", "p", "l", "e", ".", "o", "r", "g", "/", "P", "e", "o", "p", "l", "e", "/", "E", "n", "g", "i", "n", "e", "e", "r">>
\* "/etcdap/example.org/People/Engineer/mark"
key_org_mark ==
  <<"/", "e", "t", "c", "d", "a", "p", "/", "e", "x", "a", "m", "p", "l", "e", ".", "o", "r", "g", "/", "P", "e", "o", "p", "l", "e", "/", "E", "n", "g", "i", "n", "e", "e", "r", "/", "m", "a", "r", "k">>

(***************************************************************************)
(* user.go                                                                 *)
(***************************************************************************)

\* NewUser(dn, cn): Dn and Cn are character sequences, the rest plain strings.
NewUser(dn, cn) ==
  [Dn |-> dn, Cn |-> cn, Name |-> "", Password |-> "", Email |-> ""]

(***************************************************************************)
(* backend.go: the mapping between DNs and etcd keys.                      *)
(***************************************************************************)

\* The loop of dnToPathAndID over the parts of a DN with several parts:
\* dc values are appended to domain, ou and cn values are put in front of
\* path, any other part marks the DN invalid (and the loop goes on).
RECURSIVE dnToPathLoop(_, _, _)
dnToPathLoop(parts, i, st) ==
  IF i > Len(parts) THEN st
  ELSE Let(IF HasPrefix(parts[i], <<"d", "c", "=">>)
           THEN [st EXCEPT !.domain = Append(@, Split(parts[i], "=")[2])]
           ELSE IF \/ HasPrefix(parts[i], <<"o", "u", "=">>)
                   \/ HasPrefix(parts[i], <<"c", "n", "=">>)
           THEN [st EXCEPT !.path = <<Split(parts[i], "=")[2]>> \o @]
           ELSE [st EXCEPT !.invalid = TRUE],
           LAMBDA next : dnToPathLoop(parts, i + 1, next))

\* EtcdBackend.dnToPathAndID: [err, path, id]
dnToPathAndID(dn) ==
  Let(Split(dn, ","), LAMBDA parts :
    Let(IF Len(parts) > 1
        THEN Let(dnToPathLoop(parts, 1,
                   [domain |-> <<>>, path |-> <<>>, invalid |-> FALSE]),
                 LAMBDA l : [path |-> <<Join(l.domain, ".")>> \o l.path,
                             invalid |-> l.invalid])
        ELSE IF HasPrefix(parts[1], <<"c", "n", "=">>)
        THEN [path |-> <<Split(parts[1], "=")[2]>>, invalid |-> FALSE]
        ELSE [path |-> <<>>, invalid |-> TRUE],
        LAMBDA st :
          IF st.invalid
          THEN [err |-> TRUE, path |-> <<>>, id |-> <<>>]
          ELSE [err |-> FALSE,
                path |-> <<"/">> \o prefix \o <<"/">> \o Join(st.path, "/"),
                id |-> st.path[Len(st.path)]]))

\* "dc=" + domain for each domain of a dotted first segment
RECURSIVE dcParts(_)
dcParts(domains) ==
  IF Len(domains) = 0 THEN <<>>
  ELSE Let(Tail(domains),
           LAMBDA rest : <<(<<"d", "c", "=">> \o domains[1])>> \o dcParts(rest))

\* The loop of pathToDNAndID over the segments below the prefix.
RECURSIVE pathToDNLoop(_, _, _)
pathToDNLoop(segs, i, st) ==
  IF i > Len(segs) THEN st
  ELSE Let(IF i = 1
           THEN IF Contains(segs[i], ".")
                THEN [st EXCEPT !.dn = @ \o dcParts(Split(segs[i], "."))]
                ELSE [st EXCEPT !.dn = <<(<<"o", "=">> \o segs[i])>> \o @]
           ELSE IF i = Len(segs)
           THEN [dn |-> <<(<<"c", "n", "=">> \o segs[i])>> \o st.dn,
                 id |-> segs[i]]
           ELSE [st EXCEPT !.dn = <<(<<"o", "u", "=">> \o segs[i])>> \o @],
           LAMBDA next : pathToDNLoop(segs, i + 1, next))

\* EtcdBackend.pathToDNAndID: [dn, id]; it never fails.
pathToDNAndID(path) ==
  Let(Tail(Split(Tail(path), "/")), LAMBDA splitedPath :
    Let(pathToDNLoop(splitedPath, 1, [dn |-> <<>>, id |-> <<>>]),
        LAMBDA st : [dn |-> Join(st.dn, ","), id |-> st.id]))

(***************************************************************************)
(* The etcd tree and the etcd client (github.com/coreos/etcd/client), as   *)
(* the backend sees them.  A value is what json.Unmarshal makes of it.     *)
(***************************************************************************)

JsonObject(fields) == [kind |-> "object", fields |-> fields]

\* the JSON text null
JsonNull == [kind |-> "null"]

\* a value that is no JSON text, or JSON of the wrong shape
JsonInvalid == [kind |-> "invalid"]

\* the empty value of a directory node
JsonEmpty == [kind |-> "empty"]

EtcdDir == [dir |-> TRUE, value |-> JsonEmpty]

EtcdKey(value) == [dir |-> FALSE, value |-> value]

\* hex.EncodeToString(sha256.Sum256(pw)) for the passwords of the model
Sha256Hex(pw) ==
  CASE pw = "" ->
         "e3b0c44298fc1c149afbf4c8996fb92427ae41e4649b934ca495991b7852b855"
    [] pw = "password" ->
         "5e884898da28047151d0e56f8dc6292773603d0d6aabbdd62a11ef721d1542d8"
    [] pw = "secret" ->
         "2bb80d537b1da3e38bd30361aa855686bde0eacd7162fef6a25fe97bf527a25b"
    [] pw = "wrong" ->
         "8810ad581e59f2bc3928b261707a71308f7e139eb04820366dc4d5c18d980225"

\* The tree of the README, with the manager and the user mark, and beside
\* them: a second user, an entry whose value names its own cn and keeps its
\* password unhashed, an entry whose value is no JSON, an entry whose value
\* is null; and a second domain whose People level has a level below it.
EtcdTree ==
  key_root :> EtcdDir
  @@ key_manager :> EtcdKey(JsonObject(
       [name |-> "Directory Manager", email |-> "admin@example.com",
        password |-> Sha256Hex("password")]))
  @@ key_domain :> EtcdDir
  @@ key_people :> EtcdDir
  @@ key_mark :> EtcdKey(JsonObject(
       [name |-> "Mark Sato", email |-> "mark@example.com",
        password |-> Sha256Hex("password")]))
  @@ key_alice :> EtcdKey(JsonObject(
       [name |-> "Alice Liddell", email |-> "alice@example.com",
        password |-> Sha256Hex("secret")]))
  @@ key_staff :> EtcdDir
  @@ key_staff_mark :> EtcdKey(JsonObject(
       [name |-> "Mark Sato", password |-> Sha256Hex("password")]))
  @@ key_staff_msato :> EtcdKey(JsonObject(
       [cn |-> v_mark, name |-> "M. Sato", email |-> "msato@example.com",
        password |-> "secret"]))
  @@ key_broken :> EtcdDir
  @@ key_bad :> EtcdKey(JsonInvalid)
  @@ key_void :> EtcdDir
  @@ key_nobody :> EtcdKey(JsonNull)
  @@ key_org :> EtcdDir
  @@ key_org_people :> EtcdDir
  @@ key_org_kate :> EtcdKey(JsonObject(
       [name |-> "Kate Holt", email |-> "kate@example.org",
        password |-> Sha256Hex("secret")]))
  @@ key_org_engineer :> EtcdDir
  @@ key_org_mark :> EtcdKey(JsonObject(
       [name |-> "Mark Sato", email |-> "mark@example.org",
        password |-> Sha256Hex("password")]))

\* the keys directly below a directory key
Children(key) ==
  {k \in DOMAIN EtcdTree :
     /\ Len(k) > Len(key) + 1
     /\ SubSeq(k, 1, Len(key) + 1) = key \o <<"/">>
     /\ ~Contains(SubSeq(k, Len(key) + 2, Len(k)), "/")}

\* The orders in which etcd may list the children of a key (the request
\* does not ask for a sorted listing).
Listings(key) ==
  Let(Children(key), LAMBDA c :
    {l \in [1..Cardinality(c) -> c] : \A k \in c : \E i \in DOMAIN l : l[i] = k})

\* KeysAPI.Get(ctx, key, opt): up is whether the cluster answers, listing
\* the order in which it lists the children of key.
apiGet(key, up, listing) ==
  IF ~up THEN [err |-> "cluster unavailable"]
  ELSE IF key \notin DOMAIN EtcdTree THEN [err |-> "Key not found"]
  ELSE [err |-> "",
        Node |-> [Key |-> key,
                  Dir |-> EtcdTree[key].dir,
                  Value |-> EtcdTree[key].value,
                  Nodes |-> [i \in DOMAIN listing |->
                               [Key |-> listing[i],
                                Dir |-> EtcdTree[listing[i]].dir,
                                Value |-> EtcdTree[listing[i]].value]]]]

\* json.Unmarshal(value, &user) with user a *User: an object sets the fields
\* it names (Dn and Cn have no tag and are matched by name), null sets the
\* pointer to nil without error, anything else is an error.
Unmarshal(value, user) ==
  CASE value.kind = "object" ->
         LET f == value.fields
             Has(k) == k \in DOMAIN f
         IN  [err |-> FALSE, nil |-> FALSE,
              user |-> [Dn |-> IF Has("dn") THEN f.dn ELSE user.Dn,
                        Cn |-> IF Has("cn") THEN f.cn ELSE user.Cn,
                        Name |-> IF Has("name") THEN f.name ELSE user.Name,
                        Password |-> IF Has("password") THEN f.password
                                     ELSE user.Password,
                        Email |-> IF Has("email") THEN f.email ELSE user.Email]]
    [] value.kind = "null" -> [err |-> FALSE, nil |-> TRUE, user |-> user]
    [] OTHER -> [err |-> TRUE, nil |-> FALSE, user |-> user]

(***************************************************************************)
(* backend.go: Get and Search.                                             *)
(***************************************************************************)

\* Get, taking a failed read of the key for an entry without value
Get_ReadErrorIgnored(dn, up) ==
  LET Fail(err) == [err |-> err, nil |-> TRUE, user |-> NewUser(<<>>, <<>>)]
  IN  Let(dnToPathAndID(dn), LAMBDA p :
        IF p.err THEN Fail("Invalid DN")
        ELSE Let(apiGet(p.path, up, <<>>), LAMBDA res :
          IF res.err # ""
          THEN [err |-> "", nil |-> FALSE, user |-> NewUser(dn, p.id)]
          ELSE Let(Unmarshal(res.Node.Value, NewUser(dn, p.id)), LAMBDA u :
            IF u.err THEN Fail("json")
            ELSE [err |-> "", nil |-> u.nil, user |-> u.user])))

\* EtcdBackend.Get: [err, nil, user]; err = "" is Go's nil error, nil says
\* that the returned *User is nil.
Get(dn, up) ==
  LET Fail(err) == [err |-> err, nil |-> TRUE, user |-> NewUser(<<>>, <<>>)]
  IN  Let(dnToPathAndID(dn), LAMBDA p :
        IF p.err THEN Fail("Invalid DN")
        ELSE Let(apiGet(p.path, up, <<>>), LAMBDA res :
          IF res.err # "" THEN Fail(res.err)
          ELSE Let(Unmarshal(res.Node.Value, NewUser(dn, p.id)), LAMBDA u :
            IF u.err THEN Fail("json")
            ELSE [err |-> "", nil |-> u.nil, user |-> u.user])))

\* reflect.ValueOf(*user).FieldByName(fn).String() for the key k of a filter
FieldString(user, k) ==
  CASE k = "dn" -> user.Dn
    [] k = "cn" -> user.Cn
    [] k = "name" -> user.Name
    [] k = "password" -> user.Password
    [] k = "email" -> user.Email
    [] OTHER -> "<invalid Value>"

\* The loop of Search over the listed nodes: [err, panic, users].
RECURSIVE SearchLoop(_, _, _, _)
SearchLoop(nodes, i, filter, users) ==
  IF i > Len(nodes) THEN [err |-> "", panic |-> FALSE, users |-> users]
  ELSE Let(pathToDNAndID(nodes[i].Key), LAMBDA d :
         Let(Unmarshal(nodes[i].Value, NewUser(d.dn, d.id)), LAMBDA u :
           IF u.err THEN [err |-> "json", panic |-> FALSE, users |-> <<>>]
           ELSE IF u.nil
           THEN \* reflect.ValueOf(*user) dereferences the nil *User
                [err |-> "", panic |-> TRUE, users |-> <<>>]
           ELSE Let(IF \A k \in DOMAIN filter :
                         FieldString(u.user, k) = filter[k]
                    THEN Append(users, u.user)
                    ELSE users,
                    LAMBDA matched : SearchLoop(nodes, i + 1, filter, matched))))

\* EtcdBackend.Search: [err, panic, users]
Search(baseDn, filter, up, listing) ==
  LET Fail(err) == [err |-> err, panic |-> FALSE, users |-> <<>>]
  IN  Let(dnToPathAndID(baseDn), LAMBDA p :
        IF p.err THEN Fail("Invalid DN")
        ELSE Let(apiGet(p.path, up, listing), LAMBDA res :
          IF res.err # "" THEN Fail(res.err)
          ELSE SearchLoop(res.Node.Nodes, 1, filter, <<>>)))

(***************************************************************************)
(* main.go: the handlers.  A handler's outcome is what it wrote to its     *)
(* ResponseWriter (sink), the backend calls it made with their results     *)
(* (calls), whether it compared the credential (compared) and whether it   *)
(* ended in a runtime panic instead of returning (panic).                  *)
(***************************************************************************)

LDAPResultSuccess == "success"

LDAPResultOperationsError == "operationsError"

LDAPResultNoSuchObject == "noSuchObject"

LDAPResultInvalidCredentials == "invalidCredentials"

\* ldap.NewBindResponse(code) with its diagnostic message
BindResponse(code, msg) ==
  [type |-> "BindResponse", resultCode |-> code, diagnosticMessage |-> msg]

\* ldap.NewSearchResultDoneResponse(code)
SearchResultDone(code) ==
  [type |-> "SearchResultDone", resultCode |-> code, diagnosticMessage |-> ""]

\* ldap.NewSearchResultEntry(dn) with the attributes added to it
SearchResultEntry(dn, attributes) ==
  [type |-> "SearchResultEntry", dn |-> dn, attributes |-> attributes]

\* IsAnonymous, testing the DN alone
IsAnonymous_DnOnly(dn, pw) ==
  dn = <<>>

\* handleBind, the test for the anonymous bind
IsAnonymous(dn, pw) ==
  dn = <<>> /\ pw = ""

\* CredentialMatches, comparing the stored password with the supplied one
\* instead of its digest
CredentialMatches_Plain(user, pw) ==
  user.Password = pw

\* handleBind, the credential check: the stored password against the hex
\* SHA-256 of the supplied one
CredentialMatches(user, pw) ==
  user.Password = Sha256Hex(pw)

\* handleBind
handleBind(dn, pw, up) ==
  LET Out(s, c, cmp, p) ==
        [sink |-> s, calls |-> c, compared |-> cmp, panic |-> p]
  IN  IF IsAnonymous(dn, pw)
      THEN Out(<<BindResponse(LDAPResultSuccess, "")>>, <<>>, FALSE, FALSE)
      ELSE Let(Get(dn, up), LAMBDA g :
        Let([op |-> "Get", dn |-> dn, err |-> g.err, nil |-> g.nil,
             user |-> g.user], LAMBDA call :
          IF g.err # ""
          THEN Out(<<BindResponse(LDAPResultNoSuchObject, "No such object")>>,
                   <<call>>, FALSE, FALSE)
          ELSE IF g.nil
          THEN \* user.Password dereferences the nil *User
               Out(<<>>, <<call>>, FALSE, TRUE)
          ELSE IF ~CredentialMatches(g.user, pw)
          THEN Out(<<BindResponse(LDAPResultInvalidCredentials,
                                  "Invalid credentials")>>,
                   <<call>>, TRUE, FALSE)
          ELSE Out(<<BindResponse(LDAPResultSuccess, "")>>,
                   <<call>>, TRUE, FALSE)))

\* FilterToQuery, taking a filter it does not translate as no constraint
FilterToQuery_NoConstraint(f) ==
  IF f.type = "FilterEqualityMatch" /\ f.attr = "cn"
  THEN [invalidFilter |-> FALSE, filter |-> [cn |-> f.value]]
  ELSE [invalidFilter |-> FALSE, filter |-> [k \in {} |-> <<>>]]

\* handleSearch, the translation of the request's filter into the map given
\* to the backend: only an equality match on cn is translated.
FilterToQuery(f) ==
  IF f.type = "FilterEqualityMatch" /\ f.attr = "cn"
  THEN [invalidFilter |-> FALSE, filter |-> [cn |-> f.value]]
  ELSE [invalidFilter |-> TRUE, filter |-> [k \in {} |-> <<>>]]

\* EntryAttribute, with the password among the attributes it gives out
EntryAttribute_WithPassword(user, attr) ==
  CASE attr = "cn" -> <<[name |-> "cn", value |-> user.Cn]>>
    [] attr = "name" -> <<[name |-> "name", value |-> user.Name]>>
    [] attr = "email" -> <<[name |-> "email", value |-> user.Email]>>
    [] attr = "password" -> <<[name |-> "password", value |-> user.Password]>>
    [] OTHER -> <<>>

\* handleSearch, the attribute a requested name adds to an entry
EntryAttribute(user, attr) ==
  CASE attr = "cn" -> <<[name |-> "cn", value |-> user.Cn]>>
    [] attr = "name" -> <<[name |-> "name", value |-> user.Name]>>
    [] attr = "email" -> <<[name |-> "email", value |-> user.Email]>>
    [] OTHER -> <<>>

\* handleSearch, the loop over the requested attributes
RECURSIVE EntryAttributes(_, _)
EntryAttributes(user, attrs) ==
  IF Len(attrs) = 0 THEN <<>>
  ELSE Let(Tail(attrs), LAMBDA rest :
         EntryAttribute(user, attrs[1]) \o EntryAttributes(user, rest))

\* SearchEntries, writing the entries last user first
RECURSIVE SearchEntries_Reversed(_, _)
SearchEntries_Reversed(users, attrs) ==
  IF Len(users) = 0 THEN <<>>
  ELSE Let(Tail(users), LAMBDA rest :
         SearchEntries_Reversed(rest, attrs)
         \o <<SearchResultEntry(users[1].Dn, EntryAttributes(users[1], attrs))>>)

\* handleSearch, the loop over the users the backend returned
RECURSIVE SearchEntries(_, _)
SearchEntries(users, attrs) ==
  IF Len(users) = 0 THEN <<>>
  ELSE Let(Tail(users), LAMBDA rest :
         <<SearchResultEntry(users[1].Dn, EntryAttributes(users[1], attrs))>>
         \o SearchEntries(rest, attrs))

\* handleSearch
handleSearch(base, filter, attrs, up, listing) ==
  LET Out(snk, c, p) ==
        [sink |-> snk, calls |-> c, compared |-> FALSE, panic |-> p]
  IN  Let(FilterToQuery(filter), LAMBDA q :
        IF q.invalidFilter
        THEN Out(<<SearchResultDone(LDAPResultOperationsError)>>, <<>>, FALSE)
        ELSE Let(Search(base, q.filter, up, listing), LAMBDA s :
          Let([op |-> "Search", base |-> base, filter |-> q.filter,
               err |-> s.err, panic |-> s.panic, users |-> s.users],
              LAMBDA call :
            IF s.panic
            THEN Out(<<>>, <<call>>, TRUE)
            ELSE IF s.err # ""
            THEN Out(<<SearchResultDone(LDAPResultOperationsError)>>,
                     <<call>>, FALSE)
            ELSE Out(SearchEntries(s.users, attrs)
                       \o <<SearchResultDone(LDAPResultSuccess)>>,
                     <<call>>, FALSE))))

(***************************************************************************)
(* The requests of the model.                                              *)
(***************************************************************************)

BindDNs ==
  {<<>>, dn_manager, dn_mark, dn_alice, dn_ghost, dn_msato, dn_bad, dn_nobody,
   dn_people, dn_uid, dn_o_mark}

Passwords == {"", "password", "secret", "wrong"}

SearchBases ==
  {<<>>, dn_people, dn_staff, dn_broken, dn_void, dn_nowhere, dn_domain,
   dn_mark}

FilterEqualityMatch(attr, value) ==
  [type |-> "FilterEqualityMatch", attr |-> attr, value |-> value]

FilterPresent(attr) == [type |-> "FilterPresent", attr |-> attr]

FilterAnd(filters) == [type |-> "FilterAnd", filters |-> filters]

FilterOr(filters) == [type |-> "FilterOr", filters |-> filters]

FilterNot(filter) == [type |-> "FilterNot", filter |-> filter]

FilterSubstrings(attr, initial) ==
  [type |-> "FilterSubstrings", attr |-> attr, initial |-> initial]

Filters ==
  {FilterEqualityMatch("cn", v_mark), FilterEqualityMatch("cn", v_alice),
   FilterEqualityMatch("cn", v_ghost),
   FilterEqualityMatch("email", v_mail),
   FilterPresent("cn"), FilterAnd(<<>>), FilterOr(<<>>),
   FilterAnd(<<FilterPresent("cn")>>),
   FilterAnd(<<FilterEqualityMatch("cn", v_mark)>>),
   FilterNot(FilterPresent("cn")), FilterSubstrings("cn", <<"m", "a">>)}

AttributeNames == {"cn", "name", "email", "password"}

AttributeLists ==
  UNION {[1..n -> AttributeNames] : n \in 0..MaxAttrs}

(***************************************************************************)
(* The state: one client connection on which requests are served one at a  *)
(* time.                                                                   *)
(***************************************************************************)

VARIABLES
  conn,      \* "open", or "panicked" once a handler ended in a runtime panic
  pc,        \* "await": waiting for a request; "served": a handler has run
  nreq,      \* the number of requests handled on the connection
  req,       \* the request handled last
  env,       \* what etcd did during it: up, and the listing it gave
  sink,      \* the PDUs the handler wrote for it, in order
  calls,     \* the backend calls the handler made for it, with their results
  compared,  \* whether the handler compared the credential
  prevCode   \* the result code that ended the request before

\* Beside the served connection, the backend and the codec of src/ldap are
\* exercised on their own.
VARIABLES
  backend,   \* the backend operation called last, with its arguments and result
  codec,     \* the message encoded or received, its bytes, what decoding gave
  ldap       \* a connection of the server of package ldap

dirVars == <<conn, pc, nreq, req, env, sink, calls, compared, prevCode>>

\* what the directory server, the backend and the codec each leave alone
besideDir == <<backend, codec, ldap>>

besideBackend == <<dirVars, codec, ldap>>

besideCodec == <<dirVars, backend, ldap>>

besideLdap == <<dirVars, backend, codec>>

vars == <<dirVars, backend, codec, ldap>>

\* the result code of the BindResponse or SearchResultDone ending a sink
FinalCode(s) ==
  IF Len(s) > 0 /\ s[Len(s)].type \in {"BindResponse", "SearchResultDone"}
  THEN s[Len(s)].resultCode
  ELSE "none"

NoRequest == [op |-> "none"]

NoEnv == [up |-> TRUE, listing |-> <<>>]

\* no backend operation has been called on its own
NoCall == [op |-> "none"]

\* no message has been encoded or received
NoCodec == [stage |-> "idle"]

\* the server of package ldap has no connection
NoConn == [pc |-> "none"]

\* the directory server after construction, its connection accepted
DirInit ==
  /\ conn = "open"
  /\ pc = "await"
  /\ nreq = 0
  /\ req = NoRequest
  /\ env = NoEnv
  /\ sink = <<>>
  /\ calls = <<>>
  /\ compared = FALSE
  /\ prevCode = "none"

Init ==
  /\ DirInit
  /\ backend = NoCall
  /\ codec = NoCodec
  /\ ldap = NoConn

\* The connection hands the request to its handler and takes the outcome.
Serve(rq, e, out) ==
  /\ pc' = "served"
  /\ req' = rq
  /\ env' = e
  /\ sink' = out.sink
  /\ calls' = out.calls
  /\ compared' = out.compared
  /\ conn' = IF out.panic THEN "panicked" ELSE conn
  /\ nreq' = nreq + 1
  /\ UNCHANGED prevCode
  /\ UNCHANGED besideDir

\* A bind request arrives and handleBind runs.
BindRequest ==
  /\ conn = "open"
  /\ pc = "await"
  /\ nreq < MaxRequests
  /\ \E dn \in BindDNs, pw \in Passwords, up \in BOOLEAN :
       \E out \in {handleBind(dn, pw, up)} :
         Serve([op |-> "bind", dn |-> dn, pw |-> pw],
               [up |-> up, listing |-> <<>>], out)

\* The listings etcd may give for the base of a search.
BaseListings(base) ==
  Let(dnToPathAndID(base), LAMBDA p :
    IF p.err THEN {<<>>} ELSE Listings(p.path))

\* A search request arrives and handleSearch runs.
SearchRequest ==
  /\ conn = "open"
  /\ pc = "await"
  /\ nreq < MaxRequests
  /\ \E base \in SearchBases, filter \in Filters, attrs \in AttributeLists,
        up \in BOOLEAN :
       \E listing \in BaseListings(base) :
         \E out \in {handleSearch(base, filter, attrs, up, listing)} :
           Serve([op |-> "search", base |-> base, filter |-> filter,
                  attrs |-> attrs],
                 [up |-> up, listing |-> listing], out)

\* The handler has returned: the connection goes back to waiting for the
\* next request.  A handler that panicked never returns.
FinishRequest ==
  /\ conn = "open"
  /\ pc = "served"
  /\ pc' = "await"
  /\ prevCode' = FinalCode(sink)
  /\ req' = NoRequest
  /\ env' = NoEnv
  /\ sink' = <<>>
  /\ calls' = <<>>
  /\ compared' = FALSE
  /\ UNCHANGED <<conn, nreq>>
  /\ UNCHANGED besideDir

Next ==
  \/ BindRequest
  \/ SearchRequest
  \/ FinishRequest

Spec == Init /\ [][Next]_vars

(***************************************************************************)
(* Properties of the handlers.                                             *)
(***************************************************************************)

\* a handler has run for req, and sink, calls and compared are its outcome
Served == pc = "served"

\* the sink holds one PDU, of the given type and result code
OnlyResponse(type, code) ==
  /\ Len(sink) = 1
  /\ sink[1].type = type
  /\ sink[1].resultCode = code

\* the connection is still open and goes back to waiting for a request
StaysOpen ==
  /\ conn = "open"
  /\ ENABLED FinishRequest

\* after a request that ended with code, the next request is taken
NextServedAfter(code) ==
  (pc = "await" /\ prevCode = code /\ nreq < MaxRequests)
    => (conn = "open" /\ ENABLED BindRequest /\ ENABLED SearchRequest)

\* a bind with a DN, for which the backend returned the entry, with a
\* supplied password whose digest is not the stored credential
WrongCredential ==
  /\ Served
  /\ req.op = "bind"
  /\ req.dn # <<>>
  /\ Len(calls) = 1
  /\ calls[1].err = ""
  /\ ~calls[1].nil
  /\ calls[1].user.Password # Sha256Hex(req.pw)

\* C1: a bind with a non-empty DN whose entry the backend returns, with a
\* password whose hex SHA-256 differs from the stored credential, writes
\* exactly one BindResponse, with invalidCredentials (so no success), and
\* leaves the connection open: a later request is served.
C1_WrongCredentialRejected ==
  /\ WrongCredential =>
       /\ OnlyResponse("BindResponse", LDAPResultInvalidCredentials)
       /\ compared
       /\ StaysOpen
  /\ NextServedAfter(LDAPResultInvalidCredentials)

C1_Witness ==
  /\ WrongCredential
  /\ FinalCode(sink) = LDAPResultInvalidCredentials
  /\ nreq = 2
  /\ prevCode = LDAPResultInvalidCredentials

\* a bind that is not anonymous, for a DN whose key is not in the etcd tree
\* while etcd answers
MissingEntry ==
  /\ Served
  /\ req.op = "bind"
  /\ ~(req.dn = <<>> /\ req.pw = "")
  /\ env.up
  /\ ~dnToPathAndID(req.dn).err
  /\ dnToPathAndID(req.dn).path \notin DOMAIN EtcdTree

\* C2: a non-anonymous bind whose DN has no entry in the backend (Get
\* reports the key not found) writes exactly one BindResponse, with
\* noSuchObject, and the credential is never compared.
C2_MissingEntryNoSuchObject ==
  MissingEntry =>
    /\ Len(calls) = 1
    /\ calls[1].op = "Get"
    /\ calls[1].err = "Key not found"
    /\ OnlyResponse("BindResponse", LDAPResultNoSuchObject)
    /\ ~compared

C2_Witness ==
  /\ MissingEntry
  /\ req.dn = dn_ghost
  /\ req.pw = "password"
  /\ FinalCode(sink) = LDAPResultNoSuchObject

\* C3: a bind with an empty DN and an empty password writes exactly one
\* BindResponse, with success, and the backend is not consulted; a bind
\* with an empty DN and a non-empty password is not taken as anonymous: the
\* backend is consulted and the bind does not succeed.
C3_AnonymousBind ==
  (Served /\ req.op = "bind" /\ req.dn = <<>>) =>
    IF req.pw = ""
    THEN /\ OnlyResponse("BindResponse", LDAPResultSuccess)
         /\ calls = <<>>
         /\ ~compared
    ELSE /\ Len(calls) = 1
         /\ calls[1].op = "Get"
         /\ Len(sink) = 1
         /\ FinalCode(sink) # LDAPResultSuccess

C3_Witness ==
  /\ Served
  /\ req.op = "bind"
  /\ req.dn = <<>>
  /\ req.pw = ""
  /\ FinalCode(sink) = LDAPResultSuccess
  /\ calls = <<>>

\* the type of the PDU that ends the response to a request
FinalType(op) ==
  IF op = "bind" THEN "BindResponse" ELSE "SearchResultDone"

\* C4: on every path through handleBind and handleSearch exactly one final
\* PDU (BindResponse, SearchResultDone) is written to the sink, and it is
\* the last PDU written.
C4_ExactlyOneFinalResult ==
  Served =>
    /\ Len(sink) >= 1
    /\ sink[Len(sink)].type = FinalType(req.op)
    /\ \A i \in 1..(Len(sink) - 1) :
         sink[i].type \notin {"BindResponse", "SearchResultDone"}

\* a search whose filter was translated and for which the backend returned
\* a list of users
SearchSucceeded ==
  /\ Served
  /\ req.op = "search"
  /\ Len(calls) = 1
  /\ calls[1].err = ""
  /\ ~calls[1].panic

\* C5: when the filter is supported and the backend search returns n users,
\* the handler writes n SearchResultEntry PDUs, the i-th carrying the DN of
\* the i-th user, and then one SearchResultDone with success.
C5_OneEntryPerMatch ==
  SearchSucceeded =>
    LET users == calls[1].users
        n == Len(users)
    IN  /\ Len(sink) = n + 1
        /\ \A i \in 1..n :
             /\ sink[i].type = "SearchResultEntry"
             /\ sink[i].dn = users[i].Dn
        /\ sink[n + 1] = SearchResultDone(LDAPResultSuccess)

C5_Witness ==
  /\ SearchSucceeded
  /\ Len(calls[1].users) = 2
  /\ Len(sink) = 3
  /\ sink[1].dn # sink[2].dn

\* a is b with some of its elements left out
RECURSIVE IsSubSeq(_, _)
IsSubSeq(a, b) ==
  IF Len(a) = 0 THEN TRUE
  ELSE IF Len(b) = 0 THEN FALSE
  ELSE IF a[1] = b[1] THEN IsSubSeq(Tail(a), Tail(b))
  ELSE IsSubSeq(a, Tail(b))

\* the passwords stored in the etcd tree
StoredPasswords ==
  {EtcdTree[k].value.fields.password :
     k \in {x \in DOMAIN EtcdTree :
              /\ EtcdTree[x].value.kind = "object"
              /\ "password" \in DOMAIN EtcdTree[x].value.fields}}

\* C6: every SearchResultEntry holds only attributes named in the request's
\* list, in the order requested, each one of cn, name and email with the
\* user's value for it; no PDU of any response carries a stored password.
C6_OnlyRequestedAttributes ==
  Served =>
    \A i \in 1..Len(sink) :
      IF sink[i].type = "SearchResultEntry"
      THEN LET attributes == sink[i].attributes
               user == calls[1].users[i]
           IN  /\ IsSubSeq([j \in DOMAIN attributes |-> attributes[j].name],
                           req.attrs)
               /\ \A j \in DOMAIN attributes :
                    /\ attributes[j].name \in {"cn", "name", "email"}
                    /\ attributes[j].name = "cn" =>
                         attributes[j].value = user.Cn
                    /\ attributes[j].name = "name" =>
                         /\ attributes[j].value = user.Name
                         /\ attributes[j].value \notin StoredPasswords
                    /\ attributes[j].name = "email" =>
                         /\ attributes[j].value = user.Email
                         /\ attributes[j].value \notin StoredPasswords
      ELSE sink[i].diagnosticMessage \notin StoredPasswords

C6_Witness ==
  /\ SearchSucceeded
  /\ req.attrs = <<"password", "email">>
  /\ Len(sink) = 3
  /\ Len(sink[1].attributes) = 1
  /\ sink[1].attributes[1].name = "email"

\* C7: a search whose filter is of a variant the handler does not translate
\* (a substring filter, for one) writes exactly one SearchResultDone, with
\* operationsError, and no entry, calls no backend, and leaves the
\* connection open: a later request is served.
C7_UnsupportedFilter ==
  /\ (Served /\ req.op = "search" /\ req.filter.type # "FilterEqualityMatch") =>
       /\ OnlyResponse("SearchResultDone", LDAPResultOperationsError)
       /\ calls = <<>>
       /\ StaysOpen
  /\ NextServedAfter(LDAPResultOperationsError)

C7_Witness ==
  /\ Served
  /\ req.op = "search"
  /\ req.filter.type = "FilterSubstrings"
  /\ FinalCode(sink) = LDAPResultOperationsError
  /\ nreq = 2
  /\ prevCode = LDAPResultOperationsError

\* C8: a search with an And, Or, EqualityMatch or Present filter is
\* evaluated, not rejected: the backend is searched, and when its search
\* succeeds the result is success, not operationsError.
C8_FiltersEvaluated ==
  (/\ Served
   /\ req.op = "search"
   /\ req.filter.type \in {"FilterAnd", "FilterOr", "FilterEqualityMatch",
                           "FilterPresent"}) =>
    /\ Len(calls) = 1
    /\ (calls[1].err = "" /\ ~calls[1].panic) =>
         FinalCode(sink) = LDAPResultSuccess

\* C9: with an empty attribute list in the request, every SearchResultEntry
\* carries all of cn, name and email.
C9_EmptyListMeansAll ==
  (Served /\ req.op = "search" /\ req.attrs = <<>>) =>
    \A i \in 1..Len(sink) :
      sink[i].type = "SearchResultEntry" =>
        {sink[i].attributes[j].name : j \in DOMAIN sink[i].attributes}
          = {"cn", "name", "email"}

\* the errors of a backend call that do not say that the entry is absent:
\* etcd cannot be reached, the stored value cannot be decoded (a DN that
\* maps to no key is counted with the absent entries)
BackendFailures == {"cluster unavailable", "json"}

\* C10: when a backend call fails for another reason than the entry being
\* absent (etcd unreachable, a stored value that cannot be decoded), the
\* response to the Bind or Search request carries operationsError and the
\* handler returns.
C10_BackendFailureIsOperationsError ==
  (/\ Served
   /\ Len(calls) = 1
   /\ calls[1].err \in BackendFailures) =>
    /\ FinalCode(sink) = LDAPResultOperationsError
    /\ conn = "open"

(***************************************************************************)
(* The backend called on its own: dnToPathAndID on the DN forms of the     *)
(* README and Search with any predicate map, which the handlers of main.go *)
(* never build.                                                            *)
(***************************************************************************)

\* README, "Mapping of DN and etcd path": the DN forms, each with the path
\* it is listed with and the value of its cn.
ReadmeTable ==
  dn_admin :> [path |-> path_admin, cn |-> <<"a", "d", "m", "i", "n">>]
  @@ dn_mark_domain :> [path |-> path_mark_domain, cn |-> v_mark]
  @@ dn_mark :> [path |-> path_mark, cn |-> v_mark]
  @@ dn_mark_engineer :> [path |-> path_mark_engineer, cn |-> v_mark]
  @@ dn_o_mark_org :> [path |-> path_o_mark_org, cn |-> v_mark]
  @@ dn_o_mark :> [path |-> path_o_mark, cn |-> v_mark]
  @@ dn_o_mark_engineer :> [path |-> path_o_mark_engineer, cn |-> v_mark]

\* "cn=mark,dc=example": a DN with one dc component
dn_mark_dc ==
  <<"c", "n", "=", "m", "a", "r", "k", ",", "d", "c", "=", "e", "x", "a", "m", "p", "l", "e">>

\* the DNs given to dnToPathAndID
BackendDNs ==
  DOMAIN ReadmeTable
  \cup {<<>>, dn_uid, dn_domain, dn_people, dn_manager, dn_mark_dc}

\* the bases given to Search
BackendBases ==
  SearchBases \cup {dn_org, dn_org_people, dn_org_engineer, dn_alice}

\* the predicate maps given to Search: none, one and two pairs
Predicates ==
  <<[k \in {} |-> <<>>],
    [cn |-> v_mark],
    [name |-> "Mark Sato"],
    [cn |-> v_mark, name |-> "Mark Sato"],
    [name |-> "Mark Sato", email |-> "mark@example.org"],
    [email |-> "nobody@example.com"]>>

\* dnToPathAndID is called with one of the DNs.
CallDnToPathAndID ==
  /\ backend.op = "none"
  /\ \E dn \in BackendDNs :
       \E out \in {dnToPathAndID(dn)} :
         backend' = [op |-> "dnToPathAndID", dn |-> dn, out |-> out]
  /\ UNCHANGED besideBackend

\* Search is called with a base and a predicate map; etcd answers or not,
\* and lists the children of the base in some order.
CallSearch ==
  /\ backend.op = "none"
  /\ \E base \in BackendBases, i \in DOMAIN Predicates, up \in BOOLEAN :
       \E listing \in BaseListings(base) :
         \E out \in {Search(base, Predicates[i], up, listing)} :
           backend' = [op |-> "Search", base |-> base,
                       filter |-> Predicates[i], up |-> up,
                       listing |-> listing, out |-> out]
  /\ UNCHANGED besideBackend

\* pathToDNAndID is called with the path dnToPathAndID has given.
CallPathToDNAndID ==
  /\ backend.op = "dnToPathAndID"
  /\ ~backend.out.err
  /\ \E out \in {pathToDNAndID(backend.out.path)} :
       backend' = [op |-> "pathToDNAndID", dn |-> backend.dn,
                   path |-> backend.out.path, id |-> backend.out.id,
                   out |-> out]
  /\ UNCHANGED besideBackend

\* The caller has taken the result.
BackendReturn ==
  /\ backend.op # "none"
  /\ backend' = NoCall
  /\ UNCHANGED besideBackend

BackendInit ==
  /\ DirInit
  /\ backend = NoCall
  /\ codec = NoCodec
  /\ ldap = NoConn

BackendNext ==
  \/ CallDnToPathAndID
  \/ CallSearch
  \/ CallPathToDNAndID
  \/ BackendReturn

BackendSpec == BackendInit /\ [][BackendNext]_vars

(***************************************************************************)
(* Claims about the backend.                                               *)
(***************************************************************************)

\* the keys of the entries stored at or under a key, at any depth
EntriesUnder(key) ==
  {k \in DOMAIN EtcdTree :
     /\ ~EtcdTree[k].dir
     /\ (k = key \/ HasPrefix(k, key \o <<"/">>))}

\* the user stored under the key of an entry
EntryOf(k) ==
  Let(pathToDNAndID(k), LAMBDA d :
    Unmarshal(EtcdTree[k].value, NewUser(d.dn, d.id)))

\* the entries at or under a key all hold a JSON object
AllWellFormed(key) ==
  \A k \in EntriesUnder(key) : ~EntryOf(k).err /\ ~EntryOf(k).nil

\* the users at or under a key whose attributes equal every pair of a map
Expected(key, filter) ==
  {EntryOf(k).user : k \in
     {e \in EntriesUnder(key) :
        \A a \in DOMAIN filter : FieldString(EntryOf(e).user, a) = filter[a]}}

\* a Search that etcd answered, for a base that it stores and below which
\* every entry holds a JSON object
SearchAnswerable ==
  /\ backend.op = "Search"
  /\ backend.up
  /\ ~dnToPathAndID(backend.base).err
  /\ dnToPathAndID(backend.base).path \in DOMAIN EtcdTree
  /\ AllWellFormed(dnToPathAndID(backend.base).path)

\* C18: a Search that etcd answers does not fail and returns exactly the
\* entries at or under its base, at any depth, whose attributes equal every
\* pair of the predicate map (all of them when the map is empty).
C18_SearchUnderBase ==
  SearchAnswerable =>
    /\ backend.out.err = ""
    /\ ~backend.out.panic
    /\ {backend.out.users[i] : i \in DOMAIN backend.out.users}
         = Expected(dnToPathAndID(backend.base).path, backend.filter)

\* C19: dnToPathAndID maps each DN form of the README table to the path the
\* table lists for it, under the prefix, and gives the value of its cn as id.
C19_ReadmeMapping ==
  (backend.op = "dnToPathAndID" /\ backend.dn \in DOMAIN ReadmeTable) =>
    /\ ~backend.out.err
    /\ backend.out.path = <<"/">> \o prefix \o ReadmeTable[backend.dn].path
    /\ backend.out.id = ReadmeTable[backend.dn].cn

(***************************************************************************)
(* src/ldap: the LDAP server library.  Bytes are numbers in 0..255, byte   *)
(* slices are sequences of them.  First encoding/asn1 as the library calls *)
(* it: Unmarshal into a RawValue, an int, a byte slice and a bool, Marshal *)
(* of an int, a byte slice and a RawValue.                                 *)
(***************************************************************************)

\* bytes[n:]
SliceFrom(bytes, n) == SubSeq(bytes, n + 1, Len(bytes))

\* parseBase128Int, the loop: one byte of a tag number in high form
RECURSIVE parseBase128Loop(_, _, _, _)
parseBase128Loop(bytes, offset, shifted, ret64) ==
  IF offset >= Len(bytes) \/ shifted = 5
  THEN [err |-> TRUE, ret |-> 0, offset |-> offset]
  ELSE Let(bytes[offset + 1], LAMBDA b :
    IF shifted = 0 /\ b = 128
    THEN [err |-> TRUE, ret |-> 0, offset |-> offset]
    ELSE Let(ret64 * 128 + (b % 128), LAMBDA r :
      IF b < 128
      THEN [err |-> r > 2147483647, ret |-> r, offset |-> offset + 1]
      ELSE parseBase128Loop(bytes, offset + 1, shifted + 1, r)))

\* parseTagAndLength, the loop over the bytes of a length in long form
RECURSIVE parseLengthLoop(_, _, _, _)
parseLengthLoop(bytes, offset, left, length) ==
  IF left = 0
  THEN [err |-> length < 128, length |-> length, offset |-> offset]
  ELSE IF offset >= Len(bytes) \/ length >= 8388608
  THEN [err |-> TRUE, length |-> 0, offset |-> offset]
  ELSE Let(length * 256 + bytes[offset + 1], LAMBDA l :
    IF l = 0
    THEN [err |-> TRUE, length |-> 0, offset |-> offset]
    ELSE parseLengthLoop(bytes, offset + 1, left - 1, l))

\* parseTagAndLength(bytes, 0): [err, class, isCompound, tag, length, offset]
parseTagAndLength(bytes) ==
  LET Fail == [err |-> TRUE, class |-> 0, isCompound |-> FALSE, tag |-> 0,
               length |-> 0, offset |-> 0]
  IN  IF Len(bytes) = 0 THEN Fail
      ELSE Let(bytes[1], LAMBDA b :
        Let(IF b % 32 = 31
            THEN parseBase128Loop(bytes, 1, 0, 0)
            ELSE [err |-> FALSE, ret |-> b % 32, offset |-> 1], LAMBDA t :
          IF t.err \/ (b % 32 = 31 /\ t.ret < 31) \/ t.offset >= Len(bytes)
          THEN Fail
          ELSE Let(bytes[t.offset + 1], LAMBDA lb :
            Let(IF lb < 128
                THEN [err |-> FALSE, length |-> lb, offset |-> t.offset + 1]
                ELSE IF lb = 128
                THEN [err |-> TRUE, length |-> 0, offset |-> 0]
                ELSE parseLengthLoop(bytes, t.offset + 1, lb % 128, 0),
                LAMBDA l :
              IF l.err THEN Fail
              ELSE [err |-> FALSE, class |-> b \div 64,
                    isCompound |-> (b \div 32) % 2 = 1, tag |-> t.ret,
                    length |-> l.length, offset |-> l.offset]))))

\* the value of the bytes of an INTEGER as a big-endian number
RECURSIVE bigEndian(_, _, _)
bigEndian(bytes, i, acc) ==
  IF i > Len(bytes) THEN acc
  ELSE Let(acc * 256 + bytes[i], LAMBDA a : bigEndian(bytes, i + 1, a))

RECURSIVE pow256(_)
pow256(n) == IF n = 0 THEN 1 ELSE 256 * pow256(n - 1)

\* parseInt64: [err, val]
parseInt64(bytes) ==
  IF \/ Len(bytes) = 0
     \/ Len(bytes) > 8
     \/ /\ Len(bytes) > 1
        /\ \/ (bytes[1] = 0 /\ bytes[2] < 128)
           \/ (bytes[1] = 255 /\ bytes[2] >= 128)
  THEN [err |-> TRUE, val |-> 0]
  ELSE Let(bigEndian(bytes, 1, 0), LAMBDA u :
    [err |-> FALSE,
     val |-> IF bytes[1] >= 128 THEN u - pow256(Len(bytes)) ELSE u])

\* parseBool: [err, val]
parseBool(bytes) ==
  IF Len(bytes) # 1 \/ bytes[1] \notin {0, 255}
  THEN [err |-> TRUE, val |-> FALSE]
  ELSE [err |-> FALSE, val |-> bytes[1] = 255]

\* asn1.Unmarshal(bytes, &v) for v a RawValue ("raw"), an int ("int"), a
\* byte slice ("bytes") or a bool ("bool"): [err, val, rest]
asn1Unmarshal(bytes, kind) ==
  LET Fail == [err |-> TRUE, val |-> 0, rest |-> <<>>]
      \* the universal tag of the Go type: BOOLEAN, INTEGER, OCTET STRING
      want == CASE kind = "bool" -> 1
                [] kind = "int" -> 2
                [] kind = "bytes" -> 4
                [] OTHER -> 0
  IN  Let(parseTagAndLength(bytes), LAMBDA t :
        IF t.err THEN Fail
        ELSE IF /\ kind # "raw"
                /\ (t.class # 0 \/ t.tag # want \/ t.isCompound)
        THEN Fail
        ELSE IF t.offset + t.length > Len(bytes) THEN Fail
        ELSE Let(SubSeq(bytes, t.offset + 1, t.offset + t.length),
                 LAMBDA innerBytes :
          Let(SliceFrom(bytes, t.offset + t.length), LAMBDA rest :
            CASE kind = "raw" ->
                   [err |-> FALSE,
                    val |-> [Class |-> t.class, Tag |-> t.tag,
                             IsCompound |-> t.isCompound,
                             Bytes |-> innerBytes,
                             FullBytes |->
                               SubSeq(bytes, 1, t.offset + t.length)],
                    rest |-> rest]
              [] kind = "int" ->
                   Let(parseInt64(innerBytes), LAMBDA p :
                     IF p.err THEN Fail
                     ELSE [err |-> FALSE, val |-> p.val, rest |-> rest])
              [] kind = "bool" ->
                   Let(parseBool(innerBytes), LAMBDA p :
                     IF p.err THEN Fail
                     ELSE [err |-> FALSE, val |-> p.val, rest |-> rest])
              [] OTHER ->
                   [err |-> FALSE, val |-> innerBytes, rest |-> rest])))

\* the bytes of a length of one byte or more (appendLength, appendBase128Int)
RECURSIVE base256(_)
base256(n) ==
  IF n < 256 THEN <<n>>
  ELSE Let(n \div 256, LAMBDA h : base256(h) \o <<n % 256>>)

RECURSIVE base128(_, _)
base128(n, last) ==
  Let(IF last THEN n % 128 ELSE 128 + (n % 128), LAMBDA b :
    IF n < 128 THEN <<b>>
    ELSE Let(n \div 128, LAMBDA h : base128(h, FALSE) \o <<b>>))

\* appendTagAndLength
appendTagAndLength(class, tag, length, isCompound) ==
  Let(class * 64 + (IF isCompound THEN 32 ELSE 0), LAMBDA b :
    (IF tag >= 31 THEN <<b + 31>> \o base128(tag, TRUE) ELSE <<b + tag>>)
    \o (IF length >= 128
        THEN Let(base256(length), LAMBDA l : <<128 + Len(l)>> \o l)
        ELSE <<length>>))

\* the bytes of an int in two's complement, of the least length
RECURSIVE intBytes(_)
intBytes(i) ==
  IF i > 127 \/ i < -128
  THEN Let(i \div 256, LAMBDA h : intBytes(h) \o <<i % 256>>)
  ELSE <<i % 256>>

\* asn1.Marshal of an int
MarshalInt(i) ==
  Let(intBytes(i), LAMBDA body :
    appendTagAndLength(0, 2, Len(body), FALSE) \o body)

\* asn1.Marshal of a byte slice
MarshalBytes(bytes) ==
  appendTagAndLength(0, 4, Len(bytes), FALSE) \o bytes

\* asn1.Marshal of a RawValue that has no FullBytes
MarshalRaw(class, tag, isCompound, bytes) ==
  appendTagAndLength(class, tag, Len(bytes), isCompound) \o bytes

(***************************************************************************)
(* src/ldap: errors, messages and their encoding.  A nil byte slice and an *)
(* empty one are both the empty sequence.                                  *)
(***************************************************************************)

ResultCodeSuccess == 0

ResultCodeOperationsError == 1

ResultCodeProtocolError == 2

\* a nil error
NilError == [nil |-> TRUE]

NewLDAPError(rc, msg) == [nil |-> FALSE, ResultCode |-> rc, Message |-> msg]

\* a nil interface value or pointer
NilField == [type |-> "nil"]

Simple(bytes) == [type |-> "Simple", bytes |-> bytes]

SaslCredentials(mechanism, credentials) ==
  [type |-> "SaslCredentials", Mechanism |-> mechanism,
   Credentials |-> credentials]

\* a *BindRequest of package ldap
ldapBindRequest(version, name, authentication) ==
  [type |-> "BindRequest", Version |-> version, Name |-> name,
   Authentication |-> authentication]

\* a *BindResponse of package ldap, its Referral nil
ldapBindResponse(rc, matchedDN, diagnosticMessage, serverSaslCreds) ==
  [type |-> "BindResponse", ResultCode |-> rc, MatchedDN |-> matchedDN,
   DiagnosticMessage |-> diagnosticMessage,
   ServerSaslCreds |-> serverSaslCreds]

NewLDAPMessage(id, op) == [MessageID |-> id, ProtocolOp |-> op]

\* Simple.Bytes
SimpleBytes(s) == MarshalRaw(2, 0, FALSE, s.bytes)

\* SaslCredentials.Bytes
SaslCredentialsBytes(s) ==
  Let(MarshalBytes(s.Mechanism) \o MarshalBytes(s.Credentials), LAMBDA buf :
    MarshalRaw(0, 16, TRUE, buf))

\* br.Authentication.Bytes()
AuthenticationBytes(a) ==
  IF a.type = "Simple" THEN SimpleBytes(a) ELSE SaslCredentialsBytes(a)

\* BindRequest.Class and BindRequest.Tag
BindRequestClass == 1

BindRequestTag == 0

\* BindRequest.Bytes
BindRequestBytes(br) ==
  Let(MarshalInt(br.Version) \o MarshalBytes(br.Name)
        \o AuthenticationBytes(br.Authentication), LAMBDA buf :
    MarshalRaw(BindRequestClass, BindRequestTag, TRUE, buf))

\* LDAPResult.bytes, the Referral nil
LDAPResultBytes(lr) ==
  MarshalInt(lr.ResultCode) \o MarshalBytes(lr.MatchedDN)
    \o MarshalBytes(lr.DiagnosticMessage)

\* BindResponse.Bytes
BindResponseBytes(br) ==
  Let(LDAPResultBytes(br) \o MarshalBytes(br.ServerSaslCreds), LAMBDA buf :
    MarshalRaw(0, 16, TRUE, buf))

\* msg.ProtocolOp.Bytes()
ProtocolOpBytes(op) ==
  IF op.type = "BindRequest" THEN BindRequestBytes(op)
  ELSE BindResponseBytes(op)

\* LDAPMessage.Bytes
LDAPMessageBytes(msg) ==
  Let(MarshalInt(msg.MessageID) \o ProtocolOpBytes(msg.ProtocolOp),
      LAMBDA buf : MarshalRaw(0, 16, TRUE, buf))

(***************************************************************************)
(* src/ldap: decoding.  A parser gives [err, val]: the error it returns    *)
(* and the value it returns beside it.                                     *)
(***************************************************************************)

\* ParseSimple: the whole element, header included, becomes the Simple
ParseSimple(b) == [err |-> NilError, val |-> Simple(b)]

\* ParseSaslCredentials
ParseSaslCredentials(b) ==
  LET Fail(msg) ==
        [err |-> NewLDAPError(ResultCodeProtocolError, msg), val |-> NilField]
  IN  Let(asn1Unmarshal(b, "raw"), LAMBDA seq :
        IF seq.err THEN Fail("Invalid sequence")
        ELSE IF seq.val.Class # 2 THEN Fail("Invalid class")
        ELSE IF seq.val.Tag # 3 THEN Fail("Invalid tag")
        ELSE Let(asn1Unmarshal(seq.val.Bytes, "bytes"), LAMBDA m :
          IF m.err THEN Fail("Invalid mechanism field")
          ELSE IF Len(m.rest) > 0
          THEN Let(asn1Unmarshal(m.rest, "bytes"), LAMBDA c :
                 IF c.err THEN Fail("Invalid credentials field")
                 ELSE [err |-> NilError,
                       val |-> SaslCredentials(m.val, c.val)])
          ELSE [err |-> NilError, val |-> SaslCredentials(m.val, <<>>)]))

\* ParseBindRequest, the choice of the authentication by the tag of its
\* element: any tag but 0 and 3 leaves the field nil
ParseAuthentication(auth) ==
  CASE auth.Tag = 0 -> ParseSimple(auth.FullBytes)
    [] auth.Tag = 3 -> ParseSaslCredentials(auth.FullBytes)
    [] OTHER -> [err |-> NilError, val |-> NilField]

\* ParseBindRequest accepting any version
VersionSupported_Any(version) == TRUE

\* ParseBindRequest, the check of the version
VersionSupported(version) == version = 3

\* ParseBindRequest.  Beside an error it returns the request as far as it
\* was filled in, which no caller looks at; only the request that fails the
\* check of the version is kept here.
ParseBindRequest(b) ==
  LET Fail(msg) ==
        [err |-> NewLDAPError(ResultCodeProtocolError, msg), val |-> NilField]
  IN  Let(asn1Unmarshal(b, "raw"), LAMBDA seq :
        IF seq.err THEN Fail("Invalid sequence")
        ELSE IF seq.val.Class # BindRequestClass THEN Fail("Invalid class")
        ELSE IF seq.val.Tag # BindRequestTag THEN Fail("Invalid tag")
        ELSE Let(asn1Unmarshal(seq.val.Bytes, "int"), LAMBDA version :
          IF version.err THEN Fail("Invalid version field")
          ELSE Let(asn1Unmarshal(version.rest, "bytes"), LAMBDA name :
            IF name.err THEN Fail("Invalid name field")
            ELSE Let(asn1Unmarshal(name.rest, "raw"), LAMBDA auth :
              IF auth.err THEN Fail("Invalid authentication field")
              ELSE Let(ParseAuthentication(auth.val), LAMBDA a :
                IF ~a.err.nil
                THEN Fail(IF auth.val.Tag = 0 THEN "Invalid simple field"
                          ELSE "Invalid sasl field")
                ELSE Let(ldapBindRequest(version.val, name.val, a.val),
                         LAMBDA br :
                  IF ~VersionSupported(version.val)
                  THEN [err |-> NewLDAPError(ResultCodeProtocolError,
                                             "Unsupported version"),
                        val |-> br]
                  ELSE [err |-> NilError, val |-> br]))))))

\* ParseBindResponse: a nil *BindResponse and no error, whatever the bytes
ParseBindResponse(b) ==
  [err |-> NilError, val |-> [type |-> "BindResponse", nil |-> TRUE]]

\* the filters of package ldap
ldapAnd(filters) == [type |-> "And", filters |-> filters]

ldapOr(filters) == [type |-> "Or", filters |-> filters]

ldapEqualityMatch(attributeDesc, assertionValue) ==
  [type |-> "EqualityMatch", AttributeDesc |-> attributeDesc,
   AssertionValue |-> assertionValue]

ldapPresent(bytes) == [type |-> "Present", bytes |-> bytes]

\* And.Tag, Or.Tag, EqualityMatch.Tag and Present.Tag
FilterTag(f) ==
  CASE f.type = "And" -> 0
    [] f.type = "Or" -> 3
    [] f.type = "EqualityMatch" -> 3
    [] f.type = "Present" -> 7

\* ParseEqualityMatch
ParseEqualityMatch(b) ==
  LET Fail(msg) ==
        [err |-> NewLDAPError(ResultCodeProtocolError, msg), val |-> NilField]
  IN  Let(asn1Unmarshal(b, "raw"), LAMBDA seq :
        IF seq.err THEN Fail("Invalid sequence")
        ELSE Let(asn1Unmarshal(seq.val.Bytes, "bytes"), LAMBDA desc :
          IF desc.err THEN Fail("Invalid attributeDesc field")
          ELSE Let(asn1Unmarshal(desc.rest, "bytes"), LAMBDA value :
            IF value.err THEN Fail("Invalid assertionValue field")
            ELSE [err |-> NilError,
                  val |-> ldapEqualityMatch(desc.val, value.val)])))

\* ParsePresent
ParsePresent(b) ==
  Let(asn1Unmarshal(b, "raw"), LAMBDA raw :
    IF raw.err
    THEN [err |-> NewLDAPError(ResultCodeProtocolError, "Invalid present"),
          val |-> NilField]
    ELSE [err |-> NilError, val |-> ldapPresent(raw.val.Bytes)])

\* ParseFilter, and the loop of ParseAnd and of ParseOr over the filters
\* inside an element
RECURSIVE ParseFilter(_)
RECURSIVE ParseFilterLoop(_, _)
ParseFilterLoop(rest, filters) ==
  IF Len(rest) = 0 THEN [err |-> NilError, val |-> filters]
  ELSE Let(asn1Unmarshal(rest, "raw"), LAMBDA raw :
    IF raw.err
    THEN [err |-> NewLDAPError(ResultCodeProtocolError, "Invalid filter"),
          val |-> <<>>]
    ELSE Let(ParseFilter(raw.val.FullBytes), LAMBDA f :
      IF ~f.err.nil THEN [err |-> f.err, val |-> <<>>]
      ELSE ParseFilterLoop(raw.rest, Append(filters, f.val))))

\* ParseAnd
ParseAnd(b) ==
  Let(asn1Unmarshal(b, "raw"), LAMBDA rawAnd :
    IF rawAnd.err
    THEN [err |-> NewLDAPError(ResultCodeProtocolError, "Invalid and"),
          val |-> NilField]
    ELSE Let(ParseFilterLoop(rawAnd.val.Bytes, <<>>), LAMBDA l :
      IF ~l.err.nil THEN [err |-> l.err, val |-> NilField]
      ELSE [err |-> NilError, val |-> ldapAnd(l.val)]))

\* ParseOr
ParseOr(b) ==
  Let(asn1Unmarshal(b, "raw"), LAMBDA rawOr :
    IF rawOr.err
    THEN [err |-> NewLDAPError(ResultCodeProtocolError, "Invalid or"),
          val |-> NilField]
    ELSE Let(ParseFilterLoop(rawOr.val.Bytes, <<>>), LAMBDA l :
      IF ~l.err.nil THEN [err |-> l.err, val |-> NilField]
      ELSE [err |-> NilError, val |-> ldapOr(l.val)]))

\* ParseFilter: the tags 2, 4, 5, 6, 8 and 9 give a nil filter and no error
ParseFilter(b) ==
  Let(asn1Unmarshal(b, "raw"), LAMBDA seq :
    IF seq.err
    THEN [err |-> NewLDAPError(ResultCodeProtocolError, "Invalid sequence"),
          val |-> NilField]
    ELSE CASE seq.val.Tag = 0 -> ParseAnd(seq.val.FullBytes)
           [] seq.val.Tag = 1 -> ParseOr(seq.val.FullBytes)
           [] seq.val.Tag = 3 -> ParseEqualityMatch(seq.val.FullBytes)
           [] seq.val.Tag = 7 -> ParsePresent(seq.val.FullBytes)
           [] seq.val.Tag \in {2, 4, 5, 6, 8, 9} ->
                [err |-> NilError, val |-> NilField]
           [] OTHER ->
                [err |-> NewLDAPError(ResultCodeProtocolError, "Invalid tag"),
                 val |-> NilField])

\* ParseAttributeSelection, its loop: beside an error it returns the
\* selectors read so far
RECURSIVE ParseAttributeLoop(_, _)
ParseAttributeLoop(rest, attr) ==
  IF Len(rest) = 0 THEN [err |-> NilError, val |-> attr]
  ELSE Let(asn1Unmarshal(rest, "raw"), LAMBDA rawAttr :
    IF rawAttr.err
    THEN [err |-> NewLDAPError(ResultCodeProtocolError, "Invalid attributes"),
          val |-> attr]
    ELSE ParseAttributeLoop(rawAttr.rest, Append(attr, rawAttr.val.Bytes)))

\* ParseAttributeSelection
ParseAttributeSelection(b) ==
  Let(asn1Unmarshal(b, "raw"), LAMBDA seq :
    IF seq.err
    THEN [err |-> NewLDAPError(ResultCodeProtocolError, "Invalid sequence"),
          val |-> <<>>]
    ELSE ParseAttributeLoop(seq.val.Bytes, <<>>))

\* SearchRequest.Class and SearchRequest.Tag
SearchRequestClass == 1

SearchRequestTag == 3

\* a *SearchRequest of package ldap
ldapSearchRequest(baseObject, scope, derefAliases, sizeLimit, timeLimit, typesOnly, filter, attributes) ==
  [type |-> "SearchRequest", BaseObject |-> baseObject, Scope |-> scope,
   DerefAliases |-> derefAliases, SizeLimit |-> sizeLimit,
   TimeLimit |-> timeLimit, TypesOnly |-> typesOnly, Filter |-> filter,
   Attributes |-> attributes]

\* ParseSearchRequest from the filter on: the error of ParseFilter is
\* overwritten by the next assignment of err, the error of
\* ParseAttributeSelection is returned beside the request.
ParseSearchTail(baseObject, scope, derefAliases, sizeLimit, timeLimit, typesOnly, rest) ==
  LET Fail(msg) ==
        [panic |-> FALSE,
         err |-> NewLDAPError(ResultCodeProtocolError, msg), val |-> NilField]
  IN  Let(asn1Unmarshal(rest, "raw"), LAMBDA filter :
        IF filter.err THEN Fail("Invalid filter field")
        ELSE Let(ParseFilter(filter.val.FullBytes), LAMBDA f :
          Let(asn1Unmarshal(filter.rest, "raw"), LAMBDA attributes :
            IF attributes.err THEN Fail("Invalid attributes field")
            ELSE Let(ParseAttributeSelection(attributes.val.FullBytes),
                     LAMBDA attrs :
              [panic |-> FALSE, err |-> attrs.err,
               val |-> ldapSearchRequest(baseObject, scope, derefAliases,
                                         sizeLimit, timeLimit, typesOnly,
                                         f.val, attrs.val)]))))

\* ParseSearchRequest: [panic, err, val].  scope.Bytes[0] and
\* derefAliases.Bytes[0] index a slice that is empty when the element has no
\* content: a runtime panic (index out of range).
ParseSearchRequest(b) ==
  LET Fail(msg) ==
        [panic |-> FALSE,
         err |-> NewLDAPError(ResultCodeProtocolError, msg), val |-> NilField]
      Panic == [panic |-> TRUE, err |-> NilError, val |-> NilField]
  IN  Let(asn1Unmarshal(b, "raw"), LAMBDA seq :
        IF seq.err THEN Fail("Invalid sequence")
        ELSE IF seq.val.Class # SearchRequestClass THEN Fail("Invalid class")
        ELSE IF seq.val.Tag # SearchRequestTag THEN Fail("Invalid tag")
        ELSE Let(asn1Unmarshal(seq.val.Bytes, "bytes"), LAMBDA base :
          IF base.err THEN Fail("Invalid baseObject field")
          ELSE Let(asn1Unmarshal(base.rest, "raw"), LAMBDA scope :
            IF scope.err THEN Fail("Invalid scope field")
            ELSE IF Len(scope.val.Bytes) = 0 THEN Panic
            ELSE Let(asn1Unmarshal(scope.rest, "raw"), LAMBDA deref :
              IF deref.err THEN Fail("Invalid derefAliases field")
              ELSE IF Len(deref.val.Bytes) = 0 THEN Panic
              ELSE Let(asn1Unmarshal(deref.rest, "int"), LAMBDA size :
                IF size.err THEN Fail("Invalid sizeLimit field")
                ELSE Let(asn1Unmarshal(size.rest, "int"), LAMBDA time :
                  IF time.err THEN Fail("Invalid timeLimit field")
                  ELSE Let(asn1Unmarshal(time.rest, "bool"), LAMBDA types :
                    IF types.err THEN Fail("Invalid typesOnly field")
                    ELSE ParseSearchTail(base.val, scope.val.Bytes[1],
                                         deref.val.Bytes[1], size.val,
                                         time.val, types.val,
                                         types.rest))))))))

\* ParseLDAPMessage, the choice of the parser by the tag of the protocolOp
\* element: [panic, err, val]
ParseProtocolOp(raw) ==
  LET NoPanic(r) == [panic |-> FALSE, err |-> r.err, val |-> r.val]
  IN  CASE raw.Tag = 0 -> NoPanic(ParseBindRequest(raw.FullBytes))
        [] raw.Tag = 1 -> NoPanic(ParseBindResponse(raw.FullBytes))
        [] raw.Tag = 3 -> ParseSearchRequest(raw.FullBytes)
        [] OTHER ->
             [panic |-> FALSE,
              err |-> NewLDAPError(ResultCodeOperationsError,
                                   "Unsupported ProtocolOp"),
              val |-> NilField]

\* ParseLDAPMessage: [panic, err, nil, msg, rest], nil telling that the
\* *LDAPMessage returned is nil.  A failure before the choice of the parser
\* and an unsupported protocolOp return the message as far as it was filled
\* in beside the error; a failure of the parser returns nil.
ParseLDAPMessage(b) ==
  LET Fail(msg, id, rest) ==
        [panic |-> FALSE,
         err |-> NewLDAPError(ResultCodeProtocolError, msg), nil |-> FALSE,
         msg |-> NewLDAPMessage(id, NilField), rest |-> rest]
  IN  Let(asn1Unmarshal(b, "raw"), LAMBDA envelope :
        IF envelope.err THEN Fail("Invalid LDAPMessage", 0, <<>>)
        ELSE Let(asn1Unmarshal(envelope.val.Bytes, "int"), LAMBDA id :
          IF id.err THEN Fail("Invalid MessageID", 0, envelope.rest)
          ELSE Let(asn1Unmarshal(id.rest, "raw"), LAMBDA op :
            IF op.err THEN Fail("Invalid ProtocolOp", id.val, envelope.rest)
            ELSE IF Len(op.rest) > 0 /\ asn1Unmarshal(op.rest, "raw").err
            THEN Fail("Invalid Controls", id.val, envelope.rest)
            ELSE Let(ParseProtocolOp(op.val), LAMBDA p :
              IF p.panic
              THEN [panic |-> TRUE, err |-> NilError, nil |-> TRUE,
                    msg |-> NewLDAPMessage(id.val, NilField), rest |-> <<>>]
              ELSE IF p.err.nil
              THEN [panic |-> FALSE, err |-> NilError, nil |-> FALSE,
                    msg |-> NewLDAPMessage(id.val, p.val),
                    rest |-> envelope.rest]
              ELSE IF op.val.Tag \in {0, 1, 3}
              THEN [panic |-> FALSE, err |-> p.err, nil |-> TRUE,
                    msg |-> NewLDAPMessage(id.val, NilField),
                    rest |-> envelope.rest]
              ELSE [panic |-> FALSE, err |-> p.err, nil |-> FALSE,
                    msg |-> NewLDAPMessage(id.val, NilField),
                    rest |-> envelope.rest]))))

(***************************************************************************)
(* The codec on its own: a message is encoded by LDAPMessage.Bytes or its  *)
(* bytes come from a client, the bytes may lose their end, and             *)
(* ParseLDAPMessage decodes them.                                          *)
(***************************************************************************)

\* "cn=a" and "pw" in ASCII, and the SASL mechanism "X"
bytes_dn == <<99, 110, 61, 97>>

bytes_pw == <<112, 119>>

bytes_mech == <<88>>

\* message IDs of one byte and of two
MessageIDs == {1, 200}

\* the versions a bind request may name
Versions == {2, 3, 4}

\* the result codes of the bind responses: success and invalidCredentials
BindResultCodes == {0, 49}

Authentications ==
  {Simple(<<>>), Simple(bytes_pw), SaslCredentials(bytes_mech, <<>>),
   SaslCredentials(bytes_mech, bytes_pw)}

\* the messages given to LDAPMessage.Bytes
Messages ==
  {NewLDAPMessage(id, ldapBindRequest(v, n, a)) :
     id \in MessageIDs, v \in Versions, n \in {<<>>, bytes_dn},
     a \in Authentications}
  \cup
  {NewLDAPMessage(id, ldapBindResponse(rc, n, <<>>, <<>>)) :
     id \in MessageIDs, rc \in BindResultCodes, n \in {<<>>, bytes_dn}}

\* A bind request as a client encodes it (RFC 4511): the simple password is
\* [0] primitive, the SASL credentials are [3] constructed.
ClientBind(id, br) ==
  Let(IF br.Authentication.type = "Simple"
      THEN MarshalRaw(2, 0, FALSE, br.Authentication.bytes)
      ELSE MarshalRaw(2, 3, TRUE,
                      MarshalBytes(br.Authentication.Mechanism)
                        \o MarshalBytes(br.Authentication.Credentials)),
      LAMBDA auth :
    MarshalRaw(0, 16, TRUE,
      MarshalInt(id)
        \o MarshalRaw(1, 0, TRUE,
                      MarshalInt(br.Version) \o MarshalBytes(br.Name)
                        \o auth)))

\* A search request as a client encodes it, all attributes asked for, with
\* the content of its scope and derefAliases elements (ENUMERATED) and its
\* filter given.
ClientSearch(id, base, scope, derefAliases, filter) ==
  MarshalRaw(0, 16, TRUE,
    MarshalInt(id)
      \o MarshalRaw(1, 3, TRUE,
           MarshalBytes(base)
             \o MarshalRaw(0, 10, FALSE, scope)
             \o MarshalRaw(0, 10, FALSE, derefAliases)
             \o MarshalInt(0) \o MarshalInt(0)
             \o MarshalRaw(0, 1, FALSE, <<0>>)
             \o filter
             \o MarshalRaw(0, 16, TRUE, <<>>)))

\* the filter (cn=*), a present filter
bytes_present == MarshalRaw(2, 7, FALSE, <<99, 110>>)

\* An unbind request, [APPLICATION 2] NULL: an operation the library has no
\* parser for.
ClientUnbind(id) ==
  MarshalRaw(0, 16, TRUE, MarshalInt(id) \o MarshalRaw(1, 2, FALSE, <<>>))

\* "cn" and "a" in ASCII
bytes_cn == <<99, 110>>

bytes_a == <<97>>

\* Filters as a client encodes them, each [tag, bytes, filter]: the CHOICE
\* tag, the encoding, and the filter encoded, written with the variants of
\* the library where it has one.  (cn=*) and (cn=a):
FxPresent ==
  [tag |-> 7, bytes |-> MarshalRaw(2, 7, FALSE, bytes_cn),
   filter |-> ldapPresent(bytes_cn)]

FxEqualityMatch ==
  [tag |-> 3,
   bytes |-> MarshalRaw(2, 3, TRUE,
                        MarshalBytes(bytes_cn) \o MarshalBytes(bytes_a)),
   filter |-> ldapEqualityMatch(bytes_cn, bytes_a)]

\* an element of another tag around the assertion cn=a: substrings [4],
\* greaterOrEqual [5], lessOrEqual [6], approxMatch [8], extensibleMatch
\* [9], and above 9 no filter at all
FxTagged(tag) ==
  [tag |-> tag,
   bytes |-> MarshalRaw(2, tag, TRUE,
                        MarshalBytes(bytes_cn) \o MarshalBytes(bytes_a)),
   filter |-> [type |-> "tagged", tag |-> tag]]

\* a present filter whose length says more bytes than it has
FxBroken ==
  [tag |-> 7, bytes |-> <<135, 5, 99>>, filter |-> [type |-> "broken"]]

RECURSIVE FxBytes(_)
FxBytes(members) ==
  IF Len(members) = 0 THEN <<>>
  ELSE Let(Tail(members), LAMBDA t : members[1].bytes \o FxBytes(t))

\* and [0] and or [1] of the members given
FxSet(tag, members) ==
  [tag |-> tag, bytes |-> MarshalRaw(2, tag, TRUE, FxBytes(members)),
   filter |-> IF tag = 0
              THEN ldapAnd([i \in 1..Len(members) |-> members[i].filter])
              ELSE ldapOr([i \in 1..Len(members) |-> members[i].filter])]

\* not [2] of a filter
FxNot(member) ==
  [tag |-> 2, bytes |-> MarshalRaw(2, 2, TRUE, member.bytes),
   filter |-> [type |-> "Not", filter |-> member.filter]]

\* the tags of the filters without a parser, and tags that are no filter
UnparsedTags == {4, 5, 6, 8, 9}

InvalidTags == {10, 11}

\* filters of one element, well-formed ones first
FxLeaves ==
  {FxPresent, FxEqualityMatch} \cup {FxTagged(t) : t \in UnparsedTags}

FxWellFormed ==
  FxLeaves
  \cup {FxSet(t, <<>>) : t \in {0, 1}}
  \cup {FxSet(t, <<l>>) : t \in {0, 1}, l \in {FxPresent, FxEqualityMatch}}
  \cup {FxSet(t, <<FxPresent, FxEqualityMatch>>) : t \in {0, 1}}
  \cup {FxSet(t, <<FxEqualityMatch, FxPresent>>) : t \in {0, 1}}
  \cup {FxSet(t, <<FxSet(u, <<FxPresent>>), FxEqualityMatch>>) :
          t \in {0, 1}, u \in {0, 1}}
  \cup {FxNot(FxPresent), FxNot(FxSet(0, <<FxPresent, FxEqualityMatch>>))}

\* filters that are no filter: an unknown CHOICE tag, and such a filter or
\* a broken one inside and, or
FxMalformed ==
  {FxTagged(t) : t \in InvalidTags}
  \cup {FxSet(t, <<FxPresent, m>>) :
          t \in {0, 1}, m \in {FxTagged(10), FxBroken}}

\* whether a filter as encoded has a part that is no filter
RECURSIVE FxHasMalformed(_)
FxHasMalformed(f) ==
  \/ f.type = "broken"
  \/ f.type = "tagged" /\ f.tag \in InvalidTags
  \/ f.type \in {"And", "Or"}
       /\ \E i \in 1..Len(f.filters) : FxHasMalformed(f.filters[i])
  \/ f.type = "Not" /\ FxHasMalformed(f.filter)

\* A message whose protocolOp element has the tag of a bind request (0), a
\* bind response (1) or a search request (3) around the fields of that
\* operation, under a class of its own.
ClientOp(id, class, tag) ==
  MarshalRaw(0, 16, TRUE,
    MarshalInt(id)
      \o MarshalRaw(class, tag, TRUE,
           CASE tag = 0 ->
                  MarshalInt(3) \o MarshalBytes(bytes_dn)
                    \o MarshalRaw(2, 0, FALSE, bytes_pw)
             [] tag = 1 ->
                  MarshalRaw(0, 10, FALSE, <<0>>) \o MarshalBytes(<<>>)
                    \o MarshalBytes(<<>>)
             [] tag = 3 ->
                  MarshalBytes(bytes_dn)
                    \o MarshalRaw(0, 10, FALSE, <<2>>)
                    \o MarshalRaw(0, 10, FALSE, <<0>>)
                    \o MarshalInt(0) \o MarshalInt(0)
                    \o MarshalRaw(0, 1, FALSE, <<0>>)
                    \o FxPresent.bytes
                    \o MarshalRaw(0, 16, TRUE, <<>>)))

\* the BER classes: universal, application, context-specific, private
Classes == {0, 1, 2, 3}

\* the contents of a scope element: the three scopes and values that are
\* none
ScopeContents == {<<0>>, <<1>>, <<2>>, <<3>>, <<255>>}

\* What a client sends: each with the message it stands for, which for a
\* bind request is the request as the library holds it, and for a search
\* request tells the contents of scope and derefAliases and the filter.
ClientMessages ==
  {[x |-> NewLDAPMessage(1, br), bytes |-> ClientBind(1, br)] :
     br \in {ldapBindRequest(v, bytes_dn, a) :
               v \in Versions, a \in Authentications}}
  \cup
  {[x |-> NewLDAPMessage(1, [type |-> "SearchRequest", scope |-> s,
                            derefAliases |-> d, filter |-> FxPresent.filter]),
    bytes |-> ClientSearch(1, bytes_dn, s, d, bytes_present)] :
     s \in {<<>>, <<2>>}, d \in {<<>>, <<0>>}}
  \cup
  {[x |-> NewLDAPMessage(1, [type |-> "SearchRequest", scope |-> s,
                            derefAliases |-> <<0>>,
                            filter |-> FxPresent.filter]),
    bytes |-> ClientSearch(1, bytes_dn, s, <<0>>, bytes_present)] :
     s \in ScopeContents}
  \cup
  {[x |-> NewLDAPMessage(1, [type |-> "SearchRequest", scope |-> <<2>>,
                            derefAliases |-> <<0>>, filter |-> fx.filter]),
    bytes |-> ClientSearch(1, bytes_dn, <<2>>, <<0>>, fx.bytes)] :
     fx \in FxMalformed \cup {FxEqualityMatch, FxNot(FxPresent)}}
  \cup
  {[x |-> NewLDAPMessage(1, [type |-> "protocolOp", class |-> c,
                            tag |-> t]),
    bytes |-> ClientOp(1, c, t)] :
     c \in Classes, t \in {0, 1, 3}}
  \cup
  {[x |-> NewLDAPMessage(1, [type |-> "UnbindRequest"]),
    bytes |-> ClientUnbind(1)],
   [x |-> NewLDAPMessage(1, NilField), bytes |-> <<48, 128>>],
   [x |-> NewLDAPMessage(1, NilField), bytes |-> <<127, 129, 0>>]}

\* LDAPMessage.Bytes encodes a message.
Encode ==
  /\ codec.stage = "idle"
  /\ \E x \in Messages :
       \E b \in {LDAPMessageBytes(x)} :
         codec' = [stage |-> "bytes", origin |-> "encoded", x |-> x,
                   whole |-> TRUE, bytes |-> b]
  /\ UNCHANGED besideCodec

\* A client has sent a message.
Receive ==
  /\ codec.stage = "idle"
  /\ \E m \in ClientMessages :
       codec' = [stage |-> "bytes", origin |-> "client", x |-> m.x,
                 whole |-> TRUE, bytes |-> m.bytes]
  /\ UNCHANGED besideCodec

\* The bytes lose their end.
Truncate ==
  /\ codec.stage = "bytes"
  /\ codec.whole
  /\ \E n \in 0..(Len(codec.bytes) - 1) :
       codec' = [codec EXCEPT !.whole = FALSE,
                              !.bytes = SubSeq(codec.bytes, 1, n)]
  /\ UNCHANGED besideCodec

\* ParseLDAPMessage decodes the bytes.
Decode ==
  /\ codec.stage = "bytes"
  /\ \E out \in {ParseLDAPMessage(codec.bytes)} :
       codec' = [stage |-> "decoded", origin |-> codec.origin,
                 x |-> codec.x, whole |-> codec.whole,
                 bytes |-> codec.bytes, out |-> out]
  /\ UNCHANGED besideCodec

\* The caller has taken the result.
CodecReturn ==
  /\ codec.stage = "decoded"
  /\ codec' = NoCodec
  /\ UNCHANGED besideCodec

\* ParseFilter is called with the bytes of a filter.
CallParseFilter ==
  /\ codec.stage = "idle"
  /\ \E fx \in FxWellFormed \cup FxMalformed :
       \E out \in {ParseFilter(fx.bytes)} :
         codec' = [stage |-> "filter", x |-> fx, out |-> out]
  /\ UNCHANGED besideCodec

\* ParseFilter has returned.
FilterReturn ==
  /\ codec.stage = "filter"
  /\ codec' = NoCodec
  /\ UNCHANGED besideCodec

CodecInit ==
  /\ DirInit
  /\ backend = NoCall
  /\ codec = NoCodec
  /\ ldap = NoConn

CodecNext ==
  \/ Encode
  \/ Receive
  \/ Truncate
  \/ Decode
  \/ CodecReturn
  \/ CallParseFilter
  \/ FilterReturn

CodecSpec == CodecInit /\ [][CodecNext]_vars

(***************************************************************************)
(* Claims about the codec.                                                 *)
(***************************************************************************)

\* whole bytes of a bind request have been decoded
DecodedBind ==
  /\ codec.stage = "decoded"
  /\ codec.whole
  /\ codec.x.ProtocolOp.type = "BindRequest"

\* C15: decoding a well-framed bind request whose version is not 3 fails
\* with protocolError, and ParseLDAPMessage returns no message for it.
C15_VersionThreeOnly ==
  (DecodedBind /\ codec.x.ProtocolOp.Version # 3) =>
    /\ ~codec.out.panic
    /\ ~codec.out.err.nil
    /\ codec.out.err.ResultCode = ResultCodeProtocolError
    /\ codec.out.nil

\* a bind request of version 2 was refused for its version
C15_Witness ==
  /\ DecodedBind
  /\ codec.x.ProtocolOp.Version = 2
  /\ ~codec.out.err.nil
  /\ codec.out.err.Message = "Unsupported version"

\* a message the library both encodes and decodes: a bind request of
\* version 3, a bind response
SupportedPDU(x) ==
  \/ x.ProtocolOp.type = "BindRequest" /\ x.ProtocolOp.Version = 3
  \/ x.ProtocolOp.type = "BindResponse"

\* C16: decoding the bytes LDAPMessage.Bytes gives for a supported message
\* succeeds and gives back the message.
C16_RoundTrip ==
  (/\ codec.stage = "decoded"
   /\ codec.origin = "encoded"
   /\ codec.whole
   /\ SupportedPDU(codec.x)) =>
    /\ ~codec.out.panic
    /\ codec.out.err.nil
    /\ ~codec.out.nil
    /\ codec.out.msg = codec.x

\* C17: ParseLDAPMessage ends for every byte sequence with a message or an
\* error, never with a runtime panic.
C17_DecodingNeverPanics ==
  codec.stage = "decoded" => ~codec.out.panic

(***************************************************************************)
(* src/ldap/server.go: one connection of the server.  The bytes a handler  *)
(* writes are numbered as it writes them, from the last point at which     *)
(* nothing was in flight; a slice of them is a sequence of ranges          *)
(* [lo, hi], neighbours joined, so that where each byte goes can be        *)
(* followed through the two buffered writers down to the transport.        *)
(***************************************************************************)

\* len(p)
RECURSIVE SegLen(_)
SegLen(p) ==
  IF Len(p) = 0 THEN 0
  ELSE Let(Tail(p), LAMBDA t : p[1].hi - p[1].lo + 1 + SegLen(t))

\* p[:n]
RECURSIVE SegTake(_, _)
SegTake(p, n) ==
  IF n = 0 \/ Len(p) = 0 THEN <<>>
  ELSE Let(p[1].hi - p[1].lo + 1, LAMBDA l :
    IF l > n THEN <<[lo |-> p[1].lo, hi |-> p[1].lo + n - 1]>>
    ELSE Let(Tail(p), LAMBDA t : <<p[1]>> \o SegTake(t, n - l)))

\* p[n:]
RECURSIVE SegDrop(_, _)
SegDrop(p, n) ==
  IF n = 0 \/ Len(p) = 0 THEN p
  ELSE Let(p[1].hi - p[1].lo + 1, LAMBDA l :
    IF l > n THEN <<[lo |-> p[1].lo + n, hi |-> p[1].hi]>> \o Tail(p)
    ELSE Let(Tail(p), LAMBDA t : SegDrop(t, n - l)))

\* append(a, b...)
SegCat(a, b) ==
  IF Len(a) = 0 THEN b
  ELSE IF Len(b) = 0 THEN a
  ELSE IF a[Len(a)].hi + 1 = b[1].lo
  THEN SubSeq(a, 1, Len(a) - 1)
         \o <<[lo |-> a[Len(a)].lo, hi |-> b[1].hi]>> \o Tail(b)
  ELSE a \o b

bufferBeforeChunkingSize == 2048

\* the size serve asks for the connection's writer: 4<<10
ConnWriterSize == 4096

\* a bufio.Writer after NewWriterSize or Reset: empty, without error
NewWriter(size) == [buf |-> <<>>, err |-> "", size |-> size]

\* rwc.Write(p): [s, n, err].  A closed transport and one whose write
\* deadline has passed take nothing and fail; otherwise the transport takes
\* all of p.  The connection is watched for handing the transport the
\* handlers' bytes in their order, each once, and for the first error of
\* the transport.
rwcWrite(s, p) ==
  Let(SegLen(p), LAMBDA n :
    Let([s EXCEPT
           !.obs.offered = @ + n,
           !.obs.inOrder =
             @ /\ (n = 0 \/ p = <<[lo |-> s.obs.offered + 1,
                                   hi |-> s.obs.offered + n]>>)],
        LAMBDA s1 :
      Let(IF s.net.closed THEN "use of closed network connection"
          ELSE IF s.net.wdl = "expired" THEN "i/o timeout"
          ELSE "", LAMBDA err :
        IF err # ""
        THEN [s |-> [s1 EXCEPT !.obs.firstErr = IF @ = "" THEN err ELSE @],
              n |-> 0, err |-> err]
        ELSE [s |-> [s1 EXCEPT !.obs.taken = @ + n],
              n |-> n, err |-> ""])))

\* checkConnErrorWriter.Write: [s, n, err]
checkConnErrorWrite(s, p) ==
  Let(rwcWrite(s, p), LAMBDA r :
    IF r.err # "" /\ r.s.conn.werr = ""
    THEN [r EXCEPT !.s.conn.werr = r.err]
    ELSE r)

\* the bufio.Writer of a level: "w" is w.w, the writer of the response,
\* "bufw" is c.bufw, the writer of the connection
Writer(s, level) == IF level = "w" THEN s.w.w ELSE s.conn.bufw

SetWriter(s, level, b) ==
  IF level = "w" THEN [s EXCEPT !.w.w = b] ELSE [s EXCEPT !.conn.bufw = b]

RECURSIVE bufioWrite(_, _, _, _)
RECURSIVE bufioFlush(_, _)

\* chunkWriter.Write: [s, n, err]
chunkWrite(s, p) ==
  Let(bufioWrite(s, "bufw", p, 0), LAMBDA r :
    IF r.err # "" THEN [r EXCEPT !.s.net.closed = TRUE] ELSE r)

\* b.wr.Write(p) of the writer of a level
underWrite(s, level, p) ==
  IF level = "w" THEN chunkWrite(s, p) ELSE checkConnErrorWrite(s, p)

\* bufio.Writer.Flush on the writer of a level: [s, err]
bufioFlush(s, level) ==
  Let(Writer(s, level), LAMBDA b :
    IF b.err # "" THEN [s |-> s, err |-> b.err]
    ELSE IF Len(b.buf) = 0 THEN [s |-> s, err |-> ""]
    ELSE Let(underWrite(s, level, b.buf), LAMBDA r :
      Let(IF r.n < SegLen(b.buf) /\ r.err = "" THEN "short write"
          ELSE r.err, LAMBDA err :
        IF err # ""
        THEN [s |-> SetWriter(r.s, level,
                      [b EXCEPT !.buf = SegDrop(b.buf, r.n), !.err = err]),
              err |-> err]
        ELSE [s |-> SetWriter(r.s, level, [b EXCEPT !.buf = <<>>]),
              err |-> ""])))

\* bufio.Writer.Write(p) on the writer of a level, nn bytes of the call
\* written before: [s, n, err]
bufioWrite(s, level, p, nn) ==
  Let(Writer(s, level), LAMBDA b :
    Let(b.size - SegLen(b.buf), LAMBDA available :
      IF SegLen(p) > available /\ b.err = ""
      THEN IF Len(b.buf) = 0
           THEN \* large write, empty buffer: p goes to the writer below
                Let(underWrite(s, level, p), LAMBDA r :
                  Let(SetWriter(r.s, level, [b EXCEPT !.err = r.err]),
                      LAMBDA s1 :
                    bufioWrite(s1, level, SegDrop(p, r.n), nn + r.n)))
           ELSE Let(SetWriter(s, level,
                      [b EXCEPT !.buf = SegCat(@, SegTake(p, available))]),
                    LAMBDA s1 :
                  Let(bufioFlush(s1, level), LAMBDA f :
                    bufioWrite(f.s, level, SegDrop(p, available),
                               nn + available)))
      ELSE IF b.err # "" THEN [s |-> s, n |-> nn, err |-> b.err]
      ELSE [s |-> SetWriter(s, level, [b EXCEPT !.buf = SegCat(@, p)]),
            n |-> nn + SegLen(p), err |-> ""]))

\* response.Write(data) with data the next n bytes of the handler: [s, n, err]
responseWrite(s, n) ==
  IF n = 0 THEN [s |-> s, n |-> 0, err |-> ""]
  ELSE Let([s EXCEPT !.obs.written = @ + n], LAMBDA s1 :
    bufioWrite(s1, "w",
               <<[lo |-> s.obs.written + 1, hi |-> s.obs.written + n]>>, 0))

\* finishRequest without the flush of the connection's writer
FinishFlush_ResponseOnly(s) == bufioFlush(s, "w").s

\* finishRequest, its flushes: w.w.Flush() and w.conn.bufw.Flush(), the
\* errors of both dropped
FinishFlush(s) ==
  Let(bufioFlush(s, "w").s, LAMBDA s1 : bufioFlush(s1, "bufw").s)

\* the number of Write calls a handler makes for one request, at most
MaxWrites == 2

\* the lengths a handler writes: nothing, a short answer, one that fills the
\* writer of the response, one above it, one above the connection's writer
WriteSizes == {0, 100, bufferBeforeChunkingSize, 3000, 5000}

\* Server values: no timeout or some duration, the Handler nil or set
Servers ==
  {[ReadTimeout |-> rt, WriteTimeout |-> wt, Handler |-> h] :
     rt \in {0, 1}, wt \in {0, 1}, h \in {"nil", "set"}}

\* what a client sends on the connection, one message a read: binds of
\* version 3 and 2, an unbind, searches with and without the content of
\* scope, a bind response, and bytes that are no message
ConnRequests ==
  {ClientBind(1, ldapBindRequest(3, bytes_dn, Simple(bytes_pw))),
   ClientBind(1, ldapBindRequest(2, bytes_dn, Simple(bytes_pw))),
   ClientUnbind(1),
   ClientSearch(1, bytes_dn, <<2>>, <<0>>, bytes_present),
   ClientSearch(1, bytes_dn, <<>>, <<0>>, bytes_present),
   LDAPMessageBytes(NewLDAPMessage(1, ldapBindResponse(0, <<>>, <<>>, <<>>))),
   <<48, 128>>}

\* the requests among them that are whole and that ParseLDAPMessage accepts
WellFormedRequests ==
  {ClientBind(1, ldapBindRequest(3, bytes_dn, Simple(bytes_pw))),
   ClientSearch(1, bytes_dn, <<2>>, <<0>>, bytes_present)}

\* what one read of the transport may give: a message, two requests that
\* arrived together, or the first bytes of a request whose rest arrives
\* later; partial tells the last
ReadBytes ==
  {[bytes |-> b, partial |-> FALSE] : b \in ConnRequests}
  \cup {[bytes |-> a \o b, partial |-> FALSE] :
          a \in WellFormedRequests, b \in WellFormedRequests}
  \cup {[bytes |-> SubSeq(b, 1, Len(b) \div 2), partial |-> TRUE] :
          b \in WellFormedRequests}

\* no request is being answered
NoResponse == [live |-> FALSE]

\* the response readRequest makes for a request
NewResponse(request) ==
  [live |-> TRUE, req |-> request, handlerDone |-> FALSE, nwrites |-> 0,
   w |-> NewWriter(bufferBeforeChunkingSize)]

\* newConn: the connection of an accepted transport, serve not yet started,
\* with the buffers it holds from the pools, and with what is observed of
\* it: the bytes handlers wrote, those handed to the transport and those it
\* took, how the last read ended, the bytes of the last read left
\* undecoded, the deadlines set since the cycle began, the handlers in
\* progress
NewConn(srv, kind) ==
  [pc |-> "accepted",
   srv |-> srv,
   conn |-> [werr |-> "", bufw |-> NilField, tlsState |-> FALSE,
             held |-> {}],
   net |-> [kind |-> kind, closed |-> FALSE, rdl |-> "none", wdl |-> "none"],
   w |-> NoResponse,
   obs |-> [written |-> 0, offered |-> 0, taken |-> 0, inOrder |-> TRUE,
            firstErr |-> "", lastRead |-> "none", lastErr |-> NilError,
            offeredAtRead |-> 0, partial |-> FALSE, dropped |-> <<>>,
            rdlSet |-> FALSE, wdlSet |-> FALSE,
            running |-> 0, failedBefore |-> FALSE, served |-> FALSE]]

\* a read deadline set once for the connection and then left
SetReadDeadline_Once(s) ==
  IF s.srv.ReadTimeout # 0 /\ s.net.rdl = "none"
  THEN [s EXCEPT !.net.rdl = "armed", !.obs.rdlSet = TRUE]
  ELSE s

\* SetReadDeadline and SetWriteDeadline under the Server's timeouts
SetReadDeadline(s) ==
  IF s.srv.ReadTimeout # 0
  THEN [s EXCEPT !.net.rdl = "armed", !.obs.rdlSet = TRUE]
  ELSE s

SetWriteDeadline(s) ==
  IF s.srv.WriteTimeout # 0
  THEN [s EXCEPT !.net.wdl = "armed", !.obs.wdlSet = TRUE]
  ELSE s

\* serve up to its loop: the TLS handshake of a TLS transport, which may
\* fail, then the connection's reader and writer, new or from the pools
ServeStart ==
  /\ ldap.pc = "accepted"
  /\ \E handshake \in IF ldap.net.kind = "tls" THEN {"ok", "error"}
                      ELSE {"none"},
        size \in {ConnWriterSize, bufferBeforeChunkingSize} :
       \E s \in {IF ldap.net.kind = "tls"
                 THEN SetWriteDeadline(SetReadDeadline(ldap)) ELSE ldap} :
         ldap' =
           IF handshake = "error"
           THEN [s EXCEPT !.pc = "returned", !.obs.lastRead = "handshake"]
           ELSE [s EXCEPT !.pc = "read",
                          !.conn.tlsState = (handshake = "ok"),
                          !.conn.bufw = NewWriter(size),
                          !.conn.held = {"bufr", "bufw"}]
  /\ UNCHANGED besideLdap

\* once nothing is in flight the bytes are numbered from the start again
Settle(s) ==
  IF s.obs.taken = s.obs.written /\ s.obs.inOrder /\ Len(s.conn.bufw.buf) = 0
  THEN [s EXCEPT !.obs.written = 0, !.obs.offered = 0, !.obs.taken = 0]
  ELSE s

\* conn.readRequest up to the read: a cycle begins, the read deadline is
\* set and the read of the next request starts
ReadStart ==
  /\ ldap.pc = "read"
  /\ \E s \in {Settle(SetReadDeadline(
                 [ldap EXCEPT !.obs.rdlSet = FALSE, !.obs.wdlSet = FALSE,
                              !.obs.partial = FALSE,
                              !.obs.dropped = <<>>]))} :
       ldap' = [s EXCEPT !.pc = "reading", !.obs.offeredAtRead = s.obs.offered]
  /\ UNCHANGED besideLdap

\* how a read of the transport may end: with bytes of the client, or with
\* end-of-stream, a timeout under a read deadline, or another error, the
\* only one on a transport the server closed
ReadOutcomes(s) ==
  IF s.net.closed THEN {[kind |-> "error"]}
  ELSE {[kind |-> "eof"], [kind |-> "error"]}
       \cup (IF s.net.rdl = "armed" THEN {[kind |-> "timeout"]} ELSE {})
       \cup {[kind |-> "bytes", bytes |-> r.bytes, partial |-> r.partial] :
               r \in ReadBytes}

\* where serve is once it has called the handler: in the call, which runs
\* in the connection's own goroutine
DispatchPc_Concurrent == "read"

DispatchPc == "handler"

\* serverHandler.ServeLDAP is called with the response and its request
Dispatch(s, request) ==
  [s EXCEPT !.pc = DispatchPc,
            !.w = NewResponse(request),
            !.conn.held = @ \cup {"w.w"},
            !.obs.lastRead = "ok",
            !.obs.running = @ + 1,
            !.obs.failedBefore = (s.conn.werr # "")]

\* the rest of conn.readRequest and serve's step after it: the read ends,
\* the write deadline is set, and serve returns on an error of the read or
\* of the decoding, or calls the handler; what ParseLDAPMessage leaves of
\* the bytes read is dropped
ReadEnd ==
  /\ ldap.pc = "reading"
  /\ \E o \in ReadOutcomes(ldap) :
       \E s \in {SetWriteDeadline(ldap)} :
         IF o.kind # "bytes"
         THEN ldap' = [s EXCEPT !.pc = "returned", !.obs.lastRead = o.kind]
         ELSE \E out \in {ParseLDAPMessage(o.bytes)} :
                ldap' =
                  IF out.panic
                  THEN [s EXCEPT !.pc = "panicked",
                                 !.obs.lastRead = "panic"]
                  ELSE IF ~out.err.nil
                  THEN [s EXCEPT !.pc = "returned",
                                 !.obs.lastRead = "decode",
                                 !.obs.lastErr = out.err,
                                 !.obs.partial = o.partial]
                  ELSE [Dispatch(s, out.msg) EXCEPT !.obs.dropped = out.rest]
  /\ UNCHANGED besideLdap

\* the handler returns to serve
Return(s) ==
  [s EXCEPT !.obs.running = @ - 1,
            !.pc = IF @ = "handler" THEN "finish" ELSE @]

\* defaultHandler.ServeLDAP, the handler of a Server without one: it takes
\* the operation for a bind request and answers success
DefaultServeLDAP ==
  /\ ldap.obs.running > 0
  /\ ldap.srv.Handler = "nil"
  /\ \E op \in {ldap.w.req.ProtocolOp} :
       IF op.type # "BindRequest" \/ "nil" \in DOMAIN op
       THEN ldap' = [ldap EXCEPT !.pc = "panicked"]
       ELSE \E buf \in {LDAPMessageBytes(
                          NewLDAPMessage(ldap.w.req.MessageID,
                            ldapBindResponse(ResultCodeSuccess, op.Name,
                                             <<>>, <<>>)))} :
              ldap' = Return(responseWrite(ldap, Len(buf)).s)
  /\ UNCHANGED besideLdap

\* a handler of the application writes to its response
HandlerWrite ==
  /\ ldap.obs.running > 0
  /\ ldap.srv.Handler = "set"
  /\ ldap.w.nwrites < MaxWrites
  /\ \E n \in WriteSizes :
       \E r \in {responseWrite(ldap, n)} :
         ldap' = [r.s EXCEPT !.w.nwrites = @ + 1]
  /\ UNCHANGED besideLdap

\* a handler of the application returns
HandlerReturn ==
  /\ ldap.obs.running > 0
  /\ ldap.srv.Handler = "set"
  /\ ldap' = Return(ldap)
  /\ UNCHANGED besideLdap

\* response.finishRequest, and serve goes round its loop
finishRequest ==
  /\ ldap.pc = "finish"
  /\ \E s \in {FinishFlush([ldap EXCEPT !.w.handlerDone = TRUE])} :
       ldap' = [s EXCEPT !.pc = "read", !.w = NoResponse,
                         !.conn.held = @ \ {"w.w"},
                         !.obs.served = TRUE]
  /\ UNCHANGED besideLdap

\* the time of the write deadline passes
WriteDeadlineExpires ==
  /\ ldap.pc \in {"read", "reading", "handler", "finish"}
  /\ ldap.net.wdl = "armed"
  /\ ldap' = [ldap EXCEPT !.net.wdl = "expired"]
  /\ UNCHANGED besideLdap

ConnInit ==
  /\ DirInit
  /\ backend = NoCall
  /\ codec = NoCodec
  /\ ldap \in {NewConn(srv, kind) : srv \in Servers, kind \in {"tcp", "tls"}}

ConnNext ==
  \/ ServeStart
  \/ ReadStart
  \/ ReadEnd
  \/ DefaultServeLDAP
  \/ HandlerWrite
  \/ HandlerReturn
  \/ finishRequest
  \/ WriteDeadlineExpires

ConnSpec == ConnInit /\ [][ConnNext]_vars

(***************************************************************************)
(* Claims about a connection of package ldap, under ConnSpec.              *)
(***************************************************************************)

\* C11: when the read of the next request ends with end-of-stream, a read
\* timeout or a decode failure, serve has written no reply byte, no handler
\* is invoked for a further request, and the transport is closed.
C11_ReadFailureCloses ==
  (ldap.pc = "returned" /\ ldap.obs.lastRead \in {"eof", "timeout", "decode"})
    => /\ ldap.obs.offered = ldap.obs.offeredAtRead
       /\ ldap.obs.running = 0
       /\ ldap.net.closed

\* C12: a decode failure that carries operationsError, the one of an
\* unsupported operation, does not end the connection: a response is
\* written and the connection awaits the next request.
C12_SemanticFailureAnswered ==
  (/\ ldap.pc # "none"
   /\ ldap.obs.lastRead = "decode"
   /\ ldap.obs.lastErr.ResultCode = ResultCodeOperationsError)
    => /\ ldap.pc \in {"read", "reading"}
       /\ ldap.obs.offered > ldap.obs.offeredAtRead

\* C13: on a connection at most one handler is in progress, and while a
\* request is being read none is and the response before it is finished.
C13_CyclesNeverOverlap ==
  ldap.pc # "none"
    => /\ ldap.obs.running <= 1
       /\ ldap.pc = "reading" => ldap.obs.running = 0 /\ ~ldap.w.live

\* the read of a further request has started after a request was served
C13_Witness ==
  /\ ldap.pc = "reading"
  /\ ldap.obs.served

C20_WriteFailureCloses ==
  ldap.pc # "none"
    => /\ ldap.obs.running > 0 => ~ldap.obs.failedBefore
       /\ (ldap.pc \in {"read", "reading"} /\ ldap.conn.werr # "")
            => ldap.net.closed
       /\ ldap.conn.werr = ldap.obs.firstErr

(***************************************************************************)
(* Claims about the decoding of search requests and filters, under         *)
(* CodecSpec.                                                              *)
(***************************************************************************)

\* whole bytes of a search request of a client have been decoded
DecodedSearch ==
  /\ codec.stage = "decoded"
  /\ codec.whole
  /\ codec.x.ProtocolOp.type = "SearchRequest"

\* decoding failed with protocolError and gave no message
FailedWithProtocolError ==
  /\ ~codec.out.panic
  /\ ~codec.out.err.nil
  /\ codec.out.err.ResultCode = ResultCodeProtocolError
  /\ codec.out.nil

\* C21: a search request whose filter has an unknown CHOICE tag, or holds a
\* malformed filter inside and, or, fails to decode with protocolError; no
\* message is returned for it.
C21_BadFilterRefused ==
  (DecodedSearch /\ FxHasMalformed(codec.x.ProtocolOp.filter))
    => FailedWithProtocolError

\* C22: a protocolOp element of tag 0, 1 or 3 whose class is not
\* Application fails to decode with protocolError for its class, before a
\* field is read.
C22_ClassChecked ==
  (/\ codec.stage = "decoded"
   /\ codec.whole
   /\ codec.x.ProtocolOp.type = "protocolOp"
   /\ codec.x.ProtocolOp.class # 1)
    => /\ FailedWithProtocolError
       /\ codec.out.err.Message = "Invalid class"

\* C23: a search request whose scope is none of 0, 1, 2 fails to decode
\* with protocolError; no message holding the value is returned.
C23_ScopeChecked ==
  (/\ DecodedSearch
   /\ Len(codec.x.ProtocolOp.scope) = 1
   /\ Len(codec.x.ProtocolOp.derefAliases) = 1
   /\ codec.x.ProtocolOp.scope[1] \notin {0, 1, 2})
    => FailedWithProtocolError

\* C24: ParseFilter gives for a well-formed filter of tag 0 to 9 a filter
\* of the variant of that tag, which reports that tag as its own, and, or
\* holding their members in the order encoded; for a tag above 9 it fails
\* with protocolError.
C24_FilterVariants ==
  codec.stage = "filter"
    => /\ (codec.x.tag <= 9 /\ ~FxHasMalformed(codec.x.filter))
            => /\ codec.out.err.nil
               /\ codec.out.val.type # "nil"
               /\ FilterTag(codec.out.val) = codec.x.tag
               /\ codec.x.tag \in {0, 1, 3, 7}
                    => codec.out.val = codec.x.filter
       /\ codec.x.tag > 9
            => /\ ~codec.out.err.nil
               /\ codec.out.err.ResultCode = ResultCodeProtocolError

(***************************************************************************)
(* Further claims about a connection of package ldap, under ConnSpec.      *)
(***************************************************************************)

\* C25: under a ReadTimeout the read deadline has been set in the cycle
\* when its request is read, under a WriteTimeout the write deadline has
\* been set in the cycle when its handler runs, and without the timeout the
\* deadline is never set.
C25_DeadlinesEachCycle ==
  ldap.pc # "none"
    => /\ ldap.pc = "reading"
            => (ldap.obs.rdlSet <=> ldap.srv.ReadTimeout # 0)
       /\ ldap.pc \in {"handler", "finish"}
            => /\ ldap.obs.wdlSet <=> ldap.srv.WriteTimeout # 0
               /\ ldap.srv.WriteTimeout # 0 => ldap.net.wdl # "none"
       /\ ldap.srv.ReadTimeout = 0 => ldap.net.rdl = "none"
       /\ ldap.srv.WriteTimeout = 0 => ldap.net.wdl = "none"

\* the handler of a later request runs on a connection with both timeouts,
\* both deadlines set in its cycle
C25_Witness ==
  /\ ldap.pc = "handler"
  /\ ldap.obs.served
  /\ ldap.srv.ReadTimeout # 0
  /\ ldap.srv.WriteTimeout # 0
  /\ ldap.obs.rdlSet
  /\ ldap.obs.wdlSet

\* C26: on a TLS transport no request is read and no handler runs before
\* the handshake has succeeded; after a failed handshake nothing was
\* written, no request was read, and the transport is closed.
C26_HandshakeFirst ==
  (ldap.pc # "none" /\ ldap.net.kind = "tls")
    => /\ ldap.pc \in {"reading", "handler", "finish"} => ldap.conn.tlsState
       /\ ldap.obs.lastRead = "handshake"
            => /\ ldap.pc = "returned"
               /\ ldap.obs.written = 0
               /\ ldap.obs.offered = 0
               /\ ~ldap.obs.served
               /\ ldap.net.closed

\* C27: when serve has returned the connection holds no buffer of the
\* pools, and the writer of a response is held as long as the response
\* lives.
C27_BuffersReturned ==
  ldap.pc # "none"
    => /\ ldap.pc = "returned" => ldap.conn.held = {}
       /\ ldap.w.live => "w.w" \in ldap.conn.held

\* C28: no whole request that was read is dropped, and the first bytes of a
\* request, the rest still to arrive, are no decode failure.
C28_EveryRequestDispatched ==
  ldap.pc # "none"
    => /\ ldap.obs.dropped \notin WellFormedRequests
       /\ ~(ldap.obs.lastRead = "decode" /\ ldap.obs.partial)

\* C29: without a Handler no accepted message ends in a runtime panic of
\* the default handler.
C29_DefaultHandlerServes ==
  ~(/\ ldap.pc = "panicked"
    /\ ldap.srv.Handler = "nil"
    /\ ldap.obs.lastRead = "ok")

(***************************************************************************)
(* A further claim about the backend, under BackendSpec.                   *)
(***************************************************************************)

\* C30: pathToDNAndID gives back, for the path dnToPathAndID made of a DN,
\* that DN and the same id; and each DN a Search reports is one that
\* dnToPathAndID maps to the key of an entry holding that user.
C30_MappingRoundTrip ==
  /\ backend.op = "pathToDNAndID"
       => /\ backend.out.dn = backend.dn
          /\ backend.out.id = backend.id
  /\ (backend.op = "Search" /\ backend.out.err = "" /\ ~backend.out.panic)
       => \A i \in DOMAIN backend.out.users :
            /\ ~dnToPathAndID(backend.out.users[i].Dn).err
            /\ dnToPathAndID(backend.out.users[i].Dn).path
                 \in DOMAIN EtcdTree
            /\ EntryOf(dnToPathAndID(backend.out.users[i].Dn).path).user
                 = backend.out.users[i]

====
